---- MODULE Spec2Model ----
(***************************************************************************)
(* A model of the cash register's change-calculation engine:               *)
(* GreedyChangeStrategy, RandomChangeStrategy (with its cache and the      *)
(* process-wide Math.random it draws from), ChangeStrategyFactory and      *)
(* ChangeCalculator.                                                       *)
(*                                                                         *)
(* Amounts in cents are integers.  A JavaScript Map<string, number> is a   *)
(* sequence of [name, count] records in insertion order.  Strings are the  *)
(* program's strings.                                                      *)
(***************************************************************************)
EXTENDS Integers, Sequences, FiniteSets, TLC

(***************************************************************************)
(* Bounds of the model.                                                    *)
(***************************************************************************)
\* calculateChange is called with an amount owed in -1 .. MaxOwed
MaxOwed == 1
\* the special rule's divisor is in 1 .. MaxDivisor
MaxDivisor == 3
\* getStrategy is asked about changes in 0 .. MaxChange
MaxChange == 20
\* GreedyChangeStrategy is called with changes in 0 .. MaxGreedyChange
MaxGreedyChange == 170
\* processTransactions gets lists of up to MaxBatch pairs
MaxBatch == 2
\* formatOutput is given the mappings returned for changes in 0 .. MaxFormatChange
MaxFormatChange == 30
\* addStrategy is called at most MaxAdded times on a factory
MaxAdded == 2
\* a CSV file has at most MaxLines lines
MaxLines == 3
\* a heuristic alone is given the changes 0 .. MaxHeuristicChange and a few larger ones
MaxHeuristicChange == 30
\* an instance with a full cache gets at most MaxCacheCalls calculateChange calls
MaxCacheCalls == 2
\* at most MaxCalls calls are made on the instances built with new
MaxCalls == 3
\* at most MaxRequests requests reach the shared instance
MaxRequests == 2
\* changes asked of greedy for a currency without a unit denomination
MaxNoUnitChange == 40
\* a sum or difference of amounts with two decimals is at most MaxUlps
\* doubles away from the double nearest to a number with two decimals
MaxUlps == 499

(***************************************************************************)
(* src/config/currencies.ts                                                *)
(***************************************************************************)
US_DENOMINATIONS ==
  << [name |-> "dollar",  valueInCents |-> 100],
     [name |-> "quarter", valueInCents |-> 25],
     [name |-> "dime",    valueInCents |-> 10],
     [name |-> "nickel",  valueInCents |-> 5],
     [name |-> "penny",   valueInCents |-> 1] >>

US_CURRENCY == [code |-> "USD", denominations |-> US_DENOMINATIONS]

EUR_DENOMINATIONS ==
  << [name |-> "euro",    valueInCents |-> 100],
     [name |-> "50-cent", valueInCents |-> 50],
     [name |-> "20-cent", valueInCents |-> 20],
     [name |-> "10-cent", valueInCents |-> 10],
     [name |-> "5-cent",  valueInCents |-> 5],
     [name |-> "2-cent",  valueInCents |-> 2],
     [name |-> "1-cent",  valueInCents |-> 1] >>

EUR_CURRENCY == [code |-> "EUR", denominations |-> EUR_DENOMINATIONS]

CURRENCY_REGISTRY == {US_CURRENCY, EUR_CURRENCY}

(***************************************************************************)
(* JavaScript helpers.                                                     *)
(***************************************************************************)
\* Map.prototype.set: an existing key keeps its place, a new key goes last
MapSet(m, name, count) ==
  IF \E i \in 1..Len(m) : m[i].name = name
  THEN [i \in 1..Len(m) |->
          IF m[i].name = name THEN [name |-> name, count |-> count] ELSE m[i]]
  ELSE Append(m, [name |-> name, count |-> count])

\* Array.prototype.sort((a, b) => b.valueInCents - a.valueInCents): stable,
\* descending by value.  Insert d after every element that is not smaller.
RECURSIVE InsertDesc(_, _)
InsertDesc(sorted, d) ==
  IF sorted = << >> THEN << d >>
  ELSE IF Head(sorted).valueInCents >= d.valueInCents
       THEN << Head(sorted) >> \o InsertDesc(Tail(sorted), d)
       ELSE << d >> \o sorted

\* the copy of the list left in source order
SortDesc_SourceOrder(denoms) == denoms

RECURSIVE SortDesc(_)
SortDesc(denoms) ==
  IF denoms = << >> THEN << >>
  ELSE InsertDesc(SortDesc(SubSeq(denoms, 1, Len(denoms) - 1)), denoms[Len(denoms)])

\* Array.prototype.reverse on a copy
Reverse(s) == [i \in 1..Len(s) |-> s[Len(s) + 1 - i]]

Min(a, b) == IF a <= b THEN a ELSE b

(***************************************************************************)
(* formatOutput and pluralize, the same code in both strategies.           *)
(***************************************************************************)
\* pluralize without the case of the penny
pluralize_AppendS(name) == name \o "s"

pluralize(name) == IF name = "penny" THEN "pennies" ELSE name \o "s"

\* parts.push(`${count} ${pluralName}`) for every entry with count > 0
RECURSIVE FormatParts(_, _)
FormatParts(denominations, i) ==
  IF i > Len(denominations) THEN << >>
  ELSE LET name  == denominations[i].name
           count == denominations[i].count
           pluralName == IF count = 1 THEN name ELSE pluralize(name)
       IN  IF count > 0
           THEN << ToString(count) \o " " \o pluralName >>
                  \o FormatParts(denominations, i + 1)
           ELSE FormatParts(denominations, i + 1)

\* parts.join(',')
RECURSIVE Join(_)
Join(parts) ==
  IF parts = << >> THEN ""
  ELSE IF Len(parts) = 1 THEN parts[1]
       ELSE parts[1] \o "," \o Join(Tail(parts))

formatOutput(denominations) == Join(FormatParts(denominations, 1))

(***************************************************************************)
(* GreedyChangeStrategy                                                    *)
(***************************************************************************)
\* shouldApply that asks for a remainder of exactly 1
GreedyShouldApply_RemainderOne(transaction, config) ==
  IF ~config.present THEN TRUE
  ELSE transaction.changeInCents % config.divisor = 1

GreedyShouldApply(transaction, config) ==
  IF ~config.present THEN TRUE
  ELSE transaction.changeInCents % config.divisor # 0

\* the loop with remainingChange > denomination.valueInCents as its test
RECURSIVE GreedyLoop_Strict(_, _, _, _)
GreedyLoop_Strict(sortedDenominations, i, remainingChange, denominations) ==
  IF i > Len(sortedDenominations) THEN denominations
  ELSE LET denomination == sortedDenominations[i]
       IN  IF remainingChange > denomination.valueInCents
           THEN LET count == remainingChange \div denomination.valueInCents
                IN  GreedyLoop_Strict(sortedDenominations, i + 1,
                                      remainingChange - count * denomination.valueInCents,
                                      MapSet(denominations, denomination.name, count))
           ELSE GreedyLoop_Strict(sortedDenominations, i + 1, remainingChange,
                                  denominations)

\* the loop taking one piece of each denomination that fits
RECURSIVE GreedyLoop_TakeOne(_, _, _, _)
GreedyLoop_TakeOne(sortedDenominations, i, remainingChange, denominations) ==
  IF i > Len(sortedDenominations) THEN denominations
  ELSE LET denomination == sortedDenominations[i]
       IN  IF remainingChange >= denomination.valueInCents
           THEN GreedyLoop_TakeOne(sortedDenominations, i + 1,
                                   remainingChange - denomination.valueInCents,
                                   MapSet(denominations, denomination.name, 1))
           ELSE GreedyLoop_TakeOne(sortedDenominations, i + 1, remainingChange,
                                   denominations)

\* the for loop of GreedyChangeStrategy.calculateChange over the sorted list
RECURSIVE GreedyLoop(_, _, _, _)
GreedyLoop(sortedDenominations, i, remainingChange, denominations) ==
  IF i > Len(sortedDenominations) THEN denominations
  ELSE LET denomination == sortedDenominations[i]
       IN  IF remainingChange >= denomination.valueInCents
           THEN LET count == remainingChange \div denomination.valueInCents
                IN  GreedyLoop(sortedDenominations, i + 1,
                               remainingChange - count * denomination.valueInCents,
                               MapSet(denominations, denomination.name, count))
           ELSE GreedyLoop(sortedDenominations, i + 1, remainingChange, denominations)

ChangeResult(total, denominations) ==
  [totalChangeInCents |-> total,
   denominations      |-> denominations,
   formattedOutput    |-> formatOutput(denominations)]

GreedyCalculateChange(transaction, currency) ==
  ChangeResult(transaction.changeInCents,
               GreedyLoop(SortDesc(currency.denominations), 1,
                          transaction.changeInCents, << >>))

(***************************************************************************)
(* Math.random.  The process has one Math.random binding.  It is either    *)
(* the engine's generator, whose draws are any number in [0, 1), or the    *)
(* closure installed by setupSeededRandom, which holds its own seed.       *)
(* A draw is never observed directly: the code uses Math.random() only as  *)
(* Math.floor(Math.random() * k) for an integer k >= 1 and as              *)
(* Math.random() < 0.7, and these two uses are what is modelled.  The      *)
(* seeded closure returns the double seed / 233280: the quotient rounded   *)
(* to 53 bits.  Math.floor(seed / 233280 * k) multiplies that double by k  *)
(* and rounds again, so when seed * k is a multiple of 233280 the product  *)
(* can fall just below the exact integer.                                  *)
(***************************************************************************)
LcgMultiplier == 9301
LcgIncrement == 49297
LcgModulus == 233280

NativeRandom == [kind |-> "native", seed |-> 0]
SeededRandom(seed) == [kind |-> "seeded", seed |-> seed]

\* seed = (seed * 9301 + 49297) % 233280.  The product is taken in two parts,
\* 9301 = 93 * 100 + 1, which gives the same number and keeps every
\* intermediate value below 2^31.
NextSeed(seed) ==
  (((seed * (LcgMultiplier \div 100)) % LcgModulus) * 100
     + seed * (LcgMultiplier % 100) + LcgIncrement) % LcgModulus

\* Math.floor(seed / 233280 * k) in doubles, 233280 being 2^6 * 3645.  The
\* double seed / 233280 is m * 2^(a - 58) with 2^a <= seed / 3645 < 2^(a + 1)
\* and m the integer nearest to seed * 2^(52 - a) / 3645; it lies below the
\* quotient by r / 3645 units of its last place when
\* r = seed * 2^(52 - a) mod 3645 is below one half of 3645.  When the exact
\* product seed * k / 233280 is an integer n, with 2^j <= n < 2^(j + 1), the
\* double product is below n if that shortfall times k exceeds half the
\* distance from n to the double before it, and its floor is then n - 1.
SeededFloor(seed, k) ==
  LET odd == LcgModulus \div 64
      RECURSIVE PowerOfTwoMod(_)
      PowerOfTwoMod(e) == IF e = 0 THEN 1 ELSE (2 * PowerOfTwoMod(e - 1)) % odd
      n == (seed * k) \div LcgModulus
  IN  IF (seed * k) % LcgModulus # 0 \/ n = 0 THEN n
      ELSE LET a == CHOOSE a \in -12..5 :
                      IF a >= 0
                      THEN odd * 2^a <= seed /\ seed \div 2^(a + 1) < odd
                      ELSE odd <= seed * 2^(0 - a) /\ seed * 2^(0 - a) < 2 * odd
               r == ((seed % odd) * PowerOfTwoMod(52 - a)) % odd
               j == CHOOSE j \in 0..30 : n \div 2^j = 1
               x == a - j - 5 + (IF n = 2^j THEN 1 ELSE 0)
               below == IF x >= 0 THEN r * k * 2^x > odd
                        ELSE r * k > odd * 2^(0 - x)
           IN  IF r # 0 /\ 2 * r < odd /\ below THEN n - 1 ELSE n

\* Math.floor(Math.random() * k): the values it can take and the generator after
FloorRandom(rng, k) ==
  IF rng.kind = "native"
  THEN {[value |-> v, rng |-> rng] : v \in 0..(k - 1)}
  ELSE LET seed == NextSeed(rng.seed)
       IN  {[value |-> SeededFloor(seed, k), rng |-> SeededRandom(seed)]}

\* Math.random() < 0.7
RandomBelow70(rng) ==
  IF rng.kind = "native"
  THEN {[value |-> b, rng |-> rng] : b \in BOOLEAN}
  ELSE LET seed == NextSeed(rng.seed)
       IN  {[value |-> (seed * 10 < 7 * LcgModulus), rng |-> SeededRandom(seed)]}

\* the two products rounded down instead of up
CeilTenths_Floor(maxCount, tenths) == (maxCount * tenths) \div 10

\* Math.ceil(maxCount * 0.6) and Math.ceil(maxCount * 0.9)
CeilTenths(maxCount, tenths) == (maxCount * tenths + 9) \div 10

(***************************************************************************)
(* RandomChangeStrategy: the three heuristics.  Each gives the set of      *)
(* [denominations, rng] it can end with: the candidate and the generator   *)
(* after the draws it made.                                                *)
(***************************************************************************)
\* shouldApply that applies whenever a config is given
RandomShouldApply_AnyChange(transaction, config) ==
  IF ~config.present THEN FALSE ELSE TRUE

RandomShouldApply(transaction, config) ==
  IF ~config.present THEN FALSE
  ELSE transaction.changeInCents % config.divisor = 0

RECURSIVE LargerLoop(_, _, _, _, _)
LargerLoop(sortedDenominations, i, remainingChange, denominations, rng) ==
  IF ~(i <= Len(sortedDenominations) /\ remainingChange > 0)
  THEN {[denominations |-> denominations, rng |-> rng]}
  ELSE LET denomination == sortedDenominations[i]
           maxCount == remainingChange \div denomination.valueInCents
           minBias  == CeilTenths(maxCount, 6)
           maxBias  == CeilTenths(maxCount, 9)
       IN  IF maxCount > 0
           THEN UNION { LET count == r.value + minBias
                            used  == Min(count, maxCount)
                        IN  IF count > 0
                            THEN LargerLoop(sortedDenominations, i + 1,
                                            remainingChange - used * denomination.valueInCents,
                                            MapSet(denominations, denomination.name, used),
                                            r.rng)
                            ELSE LargerLoop(sortedDenominations, i + 1, remainingChange,
                                            denominations, r.rng)
                        : r \in FloorRandom(rng, maxBias - minBias + 1) }
           ELSE LargerLoop(sortedDenominations, i + 1, remainingChange, denominations, rng)

generateRandomWithBiasTowardsLarger(changeInCents, sortedDenominations, rng) ==
  LargerLoop(sortedDenominations, 1, changeInCents, << >>, rng)

\* the loop of the uniform heuristic without the test count > 0
RECURSIVE UniformLoop_SetsZero(_, _, _, _, _)
UniformLoop_SetsZero(sortedDenominations, i, remainingChange, denominations, rng) ==
  IF ~(i <= Len(sortedDenominations) /\ remainingChange > 0)
  THEN {[denominations |-> denominations, rng |-> rng]}
  ELSE LET denomination == sortedDenominations[i]
           maxCount == remainingChange \div denomination.valueInCents
       IN  IF maxCount > 0
           THEN UNION { UniformLoop_SetsZero(sortedDenominations, i + 1,
                                             remainingChange - r.value * denomination.valueInCents,
                                             MapSet(denominations, denomination.name, r.value),
                                             r.rng)
                        : r \in FloorRandom(rng, maxCount + 1) }
           ELSE UniformLoop_SetsZero(sortedDenominations, i + 1, remainingChange,
                                     denominations, rng)

RECURSIVE UniformLoop(_, _, _, _, _)
UniformLoop(sortedDenominations, i, remainingChange, denominations, rng) ==
  IF ~(i <= Len(sortedDenominations) /\ remainingChange > 0)
  THEN {[denominations |-> denominations, rng |-> rng]}
  ELSE LET denomination == sortedDenominations[i]
           maxCount == remainingChange \div denomination.valueInCents
       IN  IF maxCount > 0
           THEN UNION { LET count == r.value
                        IN  IF count > 0
                            THEN UniformLoop(sortedDenominations, i + 1,
                                             remainingChange - count * denomination.valueInCents,
                                             MapSet(denominations, denomination.name, count),
                                             r.rng)
                            ELSE UniformLoop(sortedDenominations, i + 1, remainingChange,
                                             denominations, r.rng)
                        : r \in FloorRandom(rng, maxCount + 1) }
           ELSE UniformLoop(sortedDenominations, i + 1, remainingChange, denominations, rng)

generateRandomWithUniformDistribution(changeInCents, sortedDenominations, rng) ==
  UniformLoop(sortedDenominations, 1, changeInCents, << >>, rng)

\* the count drawn for one denomination by the smaller-bias heuristic: first
\* the draw of bias, then the draw of count
SmallerCount(maxCount, rng) ==
  UNION { IF bias.value
          THEN {[value |-> r.value + (maxCount \div 2), rng |-> r.rng]
                  : r \in FloorRandom(bias.rng, maxCount)}
          ELSE FloorRandom(bias.rng, maxCount + 1)
          : bias \in RandomBelow70(rng) }

RECURSIVE SmallerLoop(_, _, _, _, _)
SmallerLoop(reversedDenominations, i, remainingChange, denominations, rng) ==
  IF i > Len(reversedDenominations)
  THEN {[denominations |-> denominations, rng |-> rng]}
  ELSE LET denomination == reversedDenominations[i]
           maxCount == remainingChange \div denomination.valueInCents
       IN  IF maxCount > 0
           THEN UNION { LET actualCount == Min(c.value, maxCount)
                        IN  IF actualCount > 0
                            THEN SmallerLoop(reversedDenominations, i + 1,
                                             remainingChange - actualCount * denomination.valueInCents,
                                             MapSet(denominations, denomination.name, actualCount),
                                             c.rng)
                            ELSE SmallerLoop(reversedDenominations, i + 1, remainingChange,
                                             denominations, c.rng)
                        : c \in SmallerCount(maxCount, rng) }
           ELSE SmallerLoop(reversedDenominations, i + 1, remainingChange, denominations, rng)

generateRandomWithBiasTowardsSmaller(changeInCents, sortedDenominations, rng) ==
  SmallerLoop(Reverse(sortedDenominations), 1, changeInCents, << >>, rng)

\* currency.denominations.find((d) => d.name === name): the first match
FindDenomination(currency, name) ==
  LET hits == {i \in 1..Len(currency.denominations) : currency.denominations[i].name = name}
  IN  IF hits = {} THEN [found |-> FALSE, valueInCents |-> 0]
      ELSE [found |-> TRUE,
            valueInCents |->
              currency.denominations[CHOOSE i \in hits : \A j \in hits : i <= j].valueInCents]

\* isValidCombination without the comparison of the total
isValidCombination_AnyTotal(denominations, targetAmount, currency) ==
  \A i \in 1..Len(denominations) : FindDenomination(currency, denominations[i].name).found

RECURSIVE ValidFrom(_, _, _, _, _)
ValidFrom(denominations, i, total, targetAmount, currency) ==
  IF i > Len(denominations) THEN total = targetAmount
  ELSE LET denomination == FindDenomination(currency, denominations[i].name)
       IN  IF ~denomination.found THEN FALSE
           ELSE ValidFrom(denominations, i + 1,
                          total + denominations[i].count * denomination.valueInCents,
                          targetAmount, currency)

isValidCombination(denominations, targetAmount, currency) ==
  ValidFrom(denominations, 1, 0, targetAmount, currency)

(***************************************************************************)
(* generateOptimizedRandomCombination: the strategies array and the two    *)
(* nested loops.  strategyIndex is the position in the array (1, 2, 3).    *)
(***************************************************************************)
maxAttempts == 500
NumStrategies == 3
AttemptsPerStrategy == maxAttempts \div NumStrategies

\* the candidates with the uniform heuristic placed before the larger-bias one
Candidates_UniformFirst(strategyIndex, changeInCents, currency, rng) ==
  LET sortedDenominations == SortDesc(currency.denominations)
  IN  CASE strategyIndex = 1 ->
             generateRandomWithUniformDistribution(changeInCents, sortedDenominations, rng)
        [] strategyIndex = 2 ->
             generateRandomWithBiasTowardsLarger(changeInCents, sortedDenominations, rng)
        [] OTHER ->
             generateRandomWithBiasTowardsSmaller(changeInCents, sortedDenominations, rng)

Candidates(strategyIndex, changeInCents, currency, rng) ==
  LET sortedDenominations == SortDesc(currency.denominations)
  IN  CASE strategyIndex = 1 ->
             generateRandomWithBiasTowardsLarger(changeInCents, sortedDenominations, rng)
        [] strategyIndex = 2 ->
             generateRandomWithUniformDistribution(changeInCents, sortedDenominations, rng)
        [] OTHER ->
             generateRandomWithBiasTowardsSmaller(changeInCents, sortedDenominations, rng)

(***************************************************************************)
(* The cache of a RandomChangeStrategy: a Map from key to denominations,   *)
(* a sequence of [key, value] records in insertion order.                  *)
(***************************************************************************)
maxCacheSize == 1000

\* `${changeInCents}-${currency.code}`.  Where the numbers are kept as doubles
\* (see DoubleSum) the currency carries the number 1 as unit; the change is
\* a whole number there, a change with decimals not being a multiple of a
\* whole divisor, and its text is the text of that whole number.
CacheKey(changeInCents, currency) ==
  ToString(IF "unit" \in DOMAIN currency THEN changeInCents \div currency.unit
           ELSE changeInCents) \o "-" \o currency.code

CacheHas(cache, key) == \E i \in 1..Len(cache) : cache[i].key = key

CacheGet(cache, key) == cache[CHOOSE i \in 1..Len(cache) : cache[i].key = key].value

\* this.cache.set(key, value)
CacheSet(cache, key, value) ==
  IF CacheHas(cache, key)
  THEN [i \in 1..Len(cache) |->
          IF cache[i].key = key THEN [key |-> key, value |-> value] ELSE cache[i]]
  ELSE Append(cache, [key |-> key, value |-> value])

\* cacheResult without the deletion at capacity
cacheResult_NoEviction(cache, key, result) == CacheSet(cache, key, result)

\* cacheResult deleting the last key in insertion order
cacheResult_EvictLast(cache, key, result) ==
  LET kept == IF Len(cache) >= maxCacheSize /\ cache[1].key # ""
              THEN SubSeq(cache, 1, Len(cache) - 1) ELSE cache
  IN  CacheSet(kept, key, result)

\* cacheResult: at capacity the first key in insertion order is deleted
cacheResult(cache, key, result) ==
  LET kept == IF Len(cache) >= maxCacheSize /\ cache[1].key # ""
              THEN Tail(cache) ELSE cache
  IN  CacheSet(kept, key, result)

(***************************************************************************)
(* ChangeStrategyFactory                                                   *)
(***************************************************************************)
\* the strategies array after the constructor: random first, then greedy
DefaultStrategies == << "random", "greedy" >>

\* Strategy objects written by a client of the factory, each with its own
\* shouldApply: two that always apply, one that never does, and one that
\* applies to even changes.
CustomStrategies == {"customAlways", "customAlwaysToo", "customNever", "customEven"}

CustomShouldApply(strategy, transaction, config) ==
  IF strategy = "customNever" THEN FALSE
  ELSE IF strategy = "customEven" THEN transaction.changeInCents % 2 = 0
  ELSE TRUE

ShouldApply(strategy, transaction, config) ==
  IF strategy = "random" THEN RandomShouldApply(transaction, config)
  ELSE IF strategy = "greedy" THEN GreedyShouldApply(transaction, config)
  ELSE CustomShouldApply(strategy, transaction, config)

\* addStrategy with push in place of unshift
addStrategy_Push(strategyList, strategy) == Append(strategyList, strategy)

\* addStrategy: this.strategies.unshift(strategy)
addStrategy(strategyList, strategy) == << strategy >> \o strategyList

\* getStrategy: the first strategy that applies.  "defaultGreedy" is the
\* new GreedyChangeStrategy of the last line.
getStrategy(strategyList, transaction, config) ==
  LET applies == {i \in 1..Len(strategyList) : ShouldApply(strategyList[i], transaction, config)}
  IN  IF applies = {} THEN "defaultGreedy"
      ELSE strategyList[CHOOSE i \in applies : \A j \in applies : i <= j]

NoConfig == [present |-> FALSE, divisor |-> 1]
Config(divisor) == [present |-> TRUE, divisor |-> divisor]

(***************************************************************************)
(* ChangeCalculator                                                        *)
(***************************************************************************)
\* validateAmounts with the comparison of the two amounts made first
validateAmounts_CompareFirst(amountOwed, amountPaid) ==
  IF amountPaid < amountOwed THEN "InsufficientPaymentError"
  ELSE IF amountOwed < 0 THEN "InvalidAmountError"
  ELSE IF amountPaid < 0 THEN "InvalidAmountError"
  ELSE "ok"

\* validateAmounts: the error it throws, or "ok"
validateAmounts(amountOwed, amountPaid) ==
  IF amountOwed < 0 THEN "InvalidAmountError"
  ELSE IF amountPaid < 0 THEN "InvalidAmountError"
  ELSE IF amountPaid < amountOwed THEN "InsufficientPaymentError"
  ELSE "ok"

Transaction(amountOwedInCents, amountPaidInCents) ==
  [amountOwedInCents |-> amountOwedInCents,
   amountPaidInCents |-> amountPaidInCents,
   changeInCents     |-> amountPaidInCents - amountOwedInCents]

(***************************************************************************)
(* JavaScript numbers with decimals.  The HTTP handlers pass the amounts   *)
(* of the request body, numbers such as 2.12, to calculateChange as they   *)
(* are, and the calculator computes with them in IEEE-754 doubles.  Such a *)
(* number is kept as an integer h * DoubleUnit + n: h is a number of       *)
(* hundredths, and the number is the n-th double after (before, for n < 0) *)
(* the double nearest to h / 100.  3 - 2.12 = 0.8799999999999999 is        *)
(* 88 * DoubleUnit - 1.  A whole number w is 100 * w * DoubleUnit.  The    *)
(* order of these integers, their quotients by a whole number rounded down *)
(* and their remainders by a whole number are those of the doubles, and    *)
(* subtracting a multiple of a whole number that is not larger is exact in *)
(* both.                                                                   *)
(***************************************************************************)
DoubleUnit == 2 * (MaxUlps + 1)

\* the double nearest to hundredths / 100: what JSON.parse gives for the
\* text of a number with two decimals.  The whole number n of the source is
\* Decimal(100 * n).
Decimal(hundredths) == hundredths * DoubleUnit

\* x + y in doubles, for x + y >= 0 (and x = y when their hundredths are
\* equal and one is negative).  A double near h / 100 with
\* 2^a <= h / 100 < 2^(a + 1) is h / 100 + e * 2^(u - 52) / 25 for an
\* integer e, where 2^(u - 52) is the distance of the doubles at it (u = a,
\* or a - 1 just below the power of two h / 100).  The sum of two of them is
\* g / 25 times the smaller of the two distances, 2^(m - 52), away from the
\* sum of the hundredths, and is rounded to the doubles around that sum, a
\* tie to the even mantissa.
DoubleSum(x, y) ==
  LET Abs(v) == IF v < 0 THEN 0 - v ELSE v
      Binade(h) ==
        CHOOSE a \in -7..14 :
          IF a >= 0 THEN 100 * 2^a <= h /\ h \div 2^(a + 1) < 100
          ELSE 100 <= h * 2^(0 - a) /\ h * 2^(0 - a) < 200
      IsPowerOfTwo(h, a) == IF a >= 0 THEN h = 100 * 2^a ELSE h * 2^(0 - a) = 100
      RECURSIVE PowerOfTwoMod(_)
      PowerOfTwoMod(e) == IF e = 0 THEN 1 ELSE (2 * PowerOfTwoMod(e - 1)) % 25
      \* the rounding of h / 100 to a double, in 25ths of the distance there
      Signed(r) == IF r <= 12 THEN 0 - r ELSE 25 - r
      Nearest(h, a) == Signed(((h % 25) * PowerOfTwoMod(50 - a)) % 25)
      \* the double v as its h, u and e
      Exact(v, h, a, u) ==
        [h |-> IF v < 0 THEN 0 - h ELSE h,
         u |-> u,
         e |-> (IF v < 0 THEN -1 ELSE 1)
               * (Nearest(h, a) * 2^(a - u) + 25 * (Abs(v) - h * DoubleUnit))]
      ExactIn(v, h, a) ==
        Exact(v, h, a, IF IsPowerOfTwo(h, a) /\ Abs(v) < h * DoubleUnit THEN a - 1 ELSE a)
      ExactAt(v, h) == ExactIn(v, h, Binade(h))
      ExactOf(v) == ExactAt(v, (Abs(v) + MaxUlps + 1) \div DoubleUnit)
      \* the doubles from the one nearest to h / 100 to the rounded sum
      TiesToEven(floor, rest, den, odd) ==
        IF 2 * rest < den THEN floor
        ELSE IF 2 * rest > den THEN floor + 1
        ELSE IF (floor + odd) % 2 = 0 THEN floor ELSE floor + 1
      Quotient(t, den, odd) == TiesToEven(t \div den, t % den, den, odd)
      Steps(m, g, a, e, u) ==
        IF u <= m THEN (g * 2^(m - u) - e * 2^(a - u)) \div 25
        ELSE Quotient(g - e * 2^(a - m), 25 * 2^(u - m), IF u = a THEN e ELSE 0)
      Below(m, g, a, e) ==
        IF a >= m THEN g - e * 2^(a - m) < 0 ELSE g * 2^(m - a) - e < 0
      Rounded(h, m, g, a, e) ==
        h * DoubleUnit
        + Steps(m, g, a, e, IF IsPowerOfTwo(h, a) /\ Below(m, g, a, e) THEN a - 1 ELSE a)
      RoundedIn(h, m, g, a) == Rounded(h, m, g, a, Nearest(h, a))
      Sum(h, m, g) == IF h = 0 THEN 0 ELSE RoundedIn(h, m, g, Binade(h))
      Scaled(p, q, m) == Sum(p.h + q.h, m, p.e * 2^(p.u - m) + q.e * 2^(q.u - m))
      Added(p, q) == Scaled(p, q, IF p.u < q.u THEN p.u ELSE q.u)
  IN  IF x = 0 THEN y
      ELSE IF y = 0 THEN x
      ELSE Added(ExactOf(x), ExactOf(y))

(***************************************************************************)
(* The state.                                                              *)
(*  mathRandom  the process-wide Math.random                               *)
(*  rcs         the RandomChangeStrategy instances: whether constructed,   *)
(*              the constructor's randomSeed, the cache                    *)
(*  calculator  the ChangeCalculator's currency and specialRuleConfig      *)
(*  strategies  the strategies array of the calculator's factory           *)
(*  frame       the position of the running calculateChange of a           *)
(*              RandomChangeStrategy inside the loops of                   *)
(*              generateOptimizedRandomCombination, or idle                *)
(*  batch       the running processTransactions: the pairs given, the      *)
(*              pairs still to map and the outputs so far                  *)
(*  result      what the last finished top-level call returned or threw    *)
(*  hist        per instance, the outcomes of the calls made on it         *)
(*              directly, in order (a record of the run, not program       *)
(*              state)                                                     *)
(***************************************************************************)
VARIABLES mathRandom, rcs, calculator, strategies, frame, batch, result, hist

vars == << mathRandom, rcs, calculator, strategies, frame, batch, result, hist >>

\* "factory" is the instance the ChangeStrategyFactory constructor builds;
\* "A" and "B" are instances built with new RandomChangeStrategy(seed)
Instances == {"factory", "A", "B"}

Unconstructed == [constructed |-> FALSE, seeded |-> FALSE, randomSeed |-> 0, cache |-> << >>]

IdleFrame == [pc |-> "idle"]

NoBatch == [active |-> FALSE]

NoResult == [kind |-> "none"]

\* a returned ChangeResult; via names the path that produced it
Returned(transaction, value, via) ==
  [kind |-> "return", owed |-> transaction.amountOwedInCents,
   paid |-> transaction.amountPaidInCents, value |-> value, via |-> via]

Thrown(amountOwed, amountPaid, error) ==
  [kind |-> "throw", owed |-> amountOwed, paid |-> amountPaid, error |-> error]

\* the callback of map catching the error of a pair and going on with the next
CalculatorReturns_SkipInvalid(outcome) ==
  /\ UNCHANGED hist
  /\ IF ~batch.active
     THEN /\ result' = outcome
          /\ UNCHANGED batch
     ELSE LET outputs == IF outcome.kind = "throw" THEN batch.outputs
                         ELSE Append(batch.outputs, outcome.value.formattedOutput)
              results == IF outcome.kind = "throw" THEN batch.results
                         ELSE Append(batch.results, outcome)
              pending == Tail(batch.pending)
          IN  IF pending = << >>
              THEN /\ result' = [kind |-> "batch", transactions |-> batch.transactions,
                                 outputs |-> outputs, results |-> results]
                   /\ batch' = NoBatch
              ELSE /\ result' = NoResult
                   /\ batch' = [batch EXCEPT !.pending = pending, !.outputs = outputs,
                                             !.results = results]

\* the summary of the batch handler; its totalChangeInCents is the sum the
\* reduce makes in doubles, from 0 and from left to right
BatchSummary(results, currency) ==
  LET RECURSIVE Total(_)
      Total(n) == IF n = 0 THEN 0
                  ELSE DoubleSum(Total(n - 1), results[n].totalChangeInCents)
  IN  [totalTransactions |-> Len(results),
       successfulTransactions |-> Cardinality({i \in 1..Len(results) : results[i].success}),
       failedTransactions |-> Cardinality({i \in 1..Len(results) : ~results[i].success}),
       totalChangeInCents |-> Total(Len(results)),
       currency |-> currency]

\* the caller of a calculator's calculateChange gets its outcome: the code
\* that called it; the callback of the batch handler's map, which catches an
\* error, keeps an entry for the transaction either way and, after the last
\* one, answers with the entries and their summary; or the callback of
\* processTransactions' map, which keeps result.formattedOutput and goes on
\* with the next pair; an error leaves map and processTransactions at once
\* (the record of the error keeps the list and the number of pairs done,
\* which the caller of processTransactions knows)
CalculatorReturns(outcome) ==
  /\ UNCHANGED hist
  /\ IF ~batch.active
     THEN /\ result' = outcome
          /\ UNCHANGED batch
     ELSE IF batch.caller = "handler"
     THEN LET entry == IF outcome.kind = "throw"
                       THEN [index |-> Len(batch.results), success |-> FALSE,
                             error |-> outcome, totalChangeInCents |-> 0,
                             formattedOutput |-> ""]
                       ELSE [index |-> Len(batch.results), success |-> TRUE,
                             totalChangeInCents |-> outcome.value.totalChangeInCents,
                             denominations |-> outcome.value.denominations,
                             formattedOutput |-> outcome.value.formattedOutput]
              results == Append(batch.results, entry)
          IN  IF Len(batch.pending) = 1
              THEN /\ result' = [kind |-> "response", route |-> "batch", status |-> 200,
                                 success |-> TRUE, results |-> results,
                                 summary |-> BatchSummary(results, batch.currency)]
                   /\ batch' = NoBatch
              ELSE /\ result' = NoResult
                   /\ batch' = [batch EXCEPT !.pending = Tail(@), !.results = results]
     ELSE IF outcome.kind = "throw"
     THEN /\ result' = [kind |-> "throw", owed |-> outcome.owed, paid |-> outcome.paid,
                        error |-> outcome.error, transactions |-> batch.transactions,
                        processed |-> Len(batch.results)]
          /\ batch' = NoBatch
     ELSE LET outputs == Append(batch.outputs, outcome.value.formattedOutput)
              results == Append(batch.results, outcome)
              pending == Tail(batch.pending)
          IN  IF pending = << >>
              THEN /\ result' = [kind |-> "batch", transactions |-> batch.transactions,
                                 outputs |-> outputs, results |-> results]
                   /\ batch' = NoBatch
              ELSE /\ result' = NoResult
                   /\ batch' = [batch EXCEPT !.pending = pending, !.outputs = outputs,
                                             !.results = results]

\* the caller of a strategy's calculateChange gets its outcome
StrategyReturns(caller, inst, outcome) ==
  IF caller = "calculator"
  THEN CalculatorReturns(outcome)
  ELSE /\ result' = outcome
       /\ hist' = [hist EXCEPT ![inst] = Append(@, outcome)]
       /\ UNCHANGED batch

SearchFrame(caller, inst, transaction, currency) ==
  [pc |-> "search", caller |-> caller, inst |-> inst, transaction |-> transaction,
   currency |-> currency, strategyIndex |-> 1, attempt |-> 0, generated |-> 0]

\* RandomChangeStrategy.calculateChange without the cache lookup
RandomCalculateChange_NoLookup(caller, inst, transaction, currency) ==
  /\ frame' = [pc |-> "search", caller |-> caller, inst |-> inst,
               transaction |-> transaction, currency |-> currency,
               strategyIndex |-> 1, attempt |-> 0, generated |-> 0]
  /\ result' = NoResult
  /\ UNCHANGED << batch, hist >>

\* RandomChangeStrategy.calculateChange up to the call of
\* generateOptimizedRandomCombination: a cache hit returns, a miss enters the loops
RandomCalculateChange(caller, inst, transaction, currency) ==
  LET cacheKey == CacheKey(transaction.changeInCents, currency)
  IN  IF CacheHas(rcs[inst].cache, cacheKey)
      THEN LET cachedResult == CacheGet(rcs[inst].cache, cacheKey)
           IN  /\ StrategyReturns(caller, inst,
                                  Returned(transaction,
                                           ChangeResult(transaction.changeInCents, cachedResult),
                                           "cache"))
               /\ UNCHANGED frame
      ELSE /\ frame' = SearchFrame(caller, inst, transaction, currency)
           /\ result' = NoResult
           /\ UNCHANGED << batch, hist >>

\* ChangeCalculator.calculateChange without the return for no change
CalculatorCalculateChange_NoShortCircuit(amountOwedInCents, amountPaidInCents) ==
  LET error == validateAmounts(amountOwedInCents, amountPaidInCents)
      transaction == Transaction(amountOwedInCents, amountPaidInCents)
      strategy == getStrategy(strategies, transaction, calculator.specialRuleConfig)
  IN  IF error # "ok"
      THEN /\ CalculatorReturns(Thrown(amountOwedInCents, amountPaidInCents, error))
           /\ UNCHANGED frame
      ELSE IF strategy = "random"
      THEN RandomCalculateChange("calculator", "factory", transaction, calculator.currency)
      ELSE /\ CalculatorReturns(Returned(transaction,
                                         GreedyCalculateChange(transaction, calculator.currency),
                                         strategy))
           /\ UNCHANGED frame

\* ChangeCalculator.calculateChange with validateAmounts called after the
\* randomized strategy
CalculatorCalculateChange_ValidateLast(amountOwedInCents, amountPaidInCents) ==
  LET error == validateAmounts(amountOwedInCents, amountPaidInCents)
      changeInCents == amountPaidInCents - amountOwedInCents
      transaction == Transaction(amountOwedInCents, amountPaidInCents)
      strategy == getStrategy(strategies, transaction, calculator.specialRuleConfig)
  IN  IF changeInCents # 0 /\ strategy = "random"
      THEN RandomCalculateChange("calculator", "factory", transaction, calculator.currency)
      ELSE IF error # "ok"
      THEN /\ CalculatorReturns(Thrown(amountOwedInCents, amountPaidInCents, error))
           /\ UNCHANGED frame
      ELSE IF changeInCents = 0
      THEN /\ CalculatorReturns(Returned(transaction,
                                         [totalChangeInCents |-> 0, denominations |-> << >>,
                                          formattedOutput |-> ""],
                                         "zero"))
           /\ UNCHANGED frame
      ELSE /\ CalculatorReturns(Returned(transaction,
                                         GreedyCalculateChange(transaction, calculator.currency),
                                         strategy))
           /\ UNCHANGED frame

\* ChangeCalculator.calculateChange, changeInCents being what the subtraction
\* amountPaidInCents - amountOwedInCents of its second line gives.  A
\* currency object without denominations (see getCurrencyByCode) makes the
\* spread of currency.denominations in either strategy throw a TypeError.
CalculateChangeOf(amountOwedInCents, amountPaidInCents, changeInCents) ==
  LET error == validateAmounts(amountOwedInCents, amountPaidInCents)
      transaction == [amountOwedInCents |-> amountOwedInCents,
                      amountPaidInCents |-> amountPaidInCents,
                      changeInCents     |-> changeInCents]
      strategy == getStrategy(strategies, transaction, calculator.specialRuleConfig)
  IN  IF error # "ok"
      THEN /\ CalculatorReturns(Thrown(amountOwedInCents, amountPaidInCents, error))
           /\ UNCHANGED frame
      ELSE IF changeInCents = 0
      THEN /\ CalculatorReturns(Returned(transaction,
                                         [totalChangeInCents |-> 0, denominations |-> << >>,
                                          formattedOutput |-> ""],
                                         "zero"))
           /\ UNCHANGED frame
      ELSE IF calculator.currency.code = "undefined"
      THEN /\ CalculatorReturns(Thrown(amountOwedInCents, amountPaidInCents, "TypeError"))
           /\ UNCHANGED frame
      ELSE IF strategy = "random"
      THEN RandomCalculateChange("calculator", "factory", transaction, calculator.currency)
      ELSE /\ CalculatorReturns(Returned(transaction,
                                         GreedyCalculateChange(transaction, calculator.currency),
                                         strategy))
           /\ UNCHANGED frame

\* ChangeCalculator.calculateChange on whole numbers of cents, whose
\* difference is exact
CalculatorCalculateChange(amountOwedInCents, amountPaidInCents) ==
  CalculateChangeOf(amountOwedInCents, amountPaidInCents,
                    amountPaidInCents - amountOwedInCents)

(***************************************************************************)
(* Actions.  JavaScript runs a call to completion: while a call is         *)
(* running no other call starts.                                           *)
(***************************************************************************)
CalculateChange(amountOwedInCents, amountPaidInCents) ==
  /\ frame.pc = "idle"
  /\ ~batch.active
  /\ CalculatorCalculateChange(amountOwedInCents, amountPaidInCents)
  /\ UNCHANGED << mathRandom, rcs, calculator, strategies >>

\* the loop position if the outer loop stayed on the same heuristic
NextPosition_SameStrategy(f) ==
  [f EXCEPT !.attempt = (f.attempt + 1) % AttemptsPerStrategy,
            !.generated = f.generated + 1]

\* the loop position after an invalid candidate
NextPosition(f) ==
  IF f.attempt + 1 < AttemptsPerStrategy
  THEN [f EXCEPT !.attempt = f.attempt + 1, !.generated = f.generated + 1]
  ELSE [f EXCEPT !.strategyIndex = f.strategyIndex + 1, !.attempt = 0,
                 !.generated = f.generated + 1]

\* one pass of the inner loop with the candidate cached before it is checked
SearchAttempt_CachesFirst ==
  /\ frame.pc = "search"
  /\ frame.strategyIndex <= NumStrategies
  /\ LET changeInCents == frame.transaction.changeInCents
     IN  \E candidate \in Candidates(frame.strategyIndex, changeInCents,
                                     frame.currency, mathRandom) :
           /\ mathRandom' = candidate.rng
           /\ rcs' = [rcs EXCEPT ![frame.inst].cache =
                        cacheResult(@, CacheKey(changeInCents, frame.currency),
                                    candidate.denominations)]
           /\ IF isValidCombination(candidate.denominations, changeInCents, frame.currency)
              THEN /\ frame' = IdleFrame
                   /\ StrategyReturns(frame.caller, frame.inst,
                                      Returned(frame.transaction,
                                               ChangeResult(changeInCents,
                                                            candidate.denominations),
                                               "search"))
              ELSE /\ frame' = NextPosition(frame)
                   /\ UNCHANGED << batch, result, hist >>
  /\ UNCHANGED << calculator, strategies >>

\* one pass of the inner loop: a candidate is generated and checked; a valid
\* one is cached and returned
SearchAttempt ==
  /\ frame.pc = "search"
  /\ frame.strategyIndex <= NumStrategies
  /\ LET changeInCents == frame.transaction.changeInCents
     IN  \E candidate \in Candidates(frame.strategyIndex, changeInCents,
                                     frame.currency, mathRandom) :
           /\ mathRandom' = candidate.rng
           /\ IF isValidCombination(candidate.denominations, changeInCents, frame.currency)
              THEN /\ rcs' = [rcs EXCEPT ![frame.inst].cache =
                                cacheResult(@, CacheKey(changeInCents, frame.currency),
                                            candidate.denominations)]
                   /\ frame' = IdleFrame
                   /\ StrategyReturns(frame.caller, frame.inst,
                                      Returned(frame.transaction,
                                               ChangeResult(changeInCents,
                                                            candidate.denominations),
                                               "search"))
              ELSE /\ frame' = NextPosition(frame)
                   /\ UNCHANGED << rcs, batch, result, hist >>
  /\ UNCHANGED << calculator, strategies >>

\* the fallback with the greedy result stored in the cache
SearchFallback_Cached ==
  /\ frame.pc = "search"
  /\ frame.strategyIndex > NumStrategies
  /\ frame' = IdleFrame
  /\ rcs' = [rcs EXCEPT ![frame.inst].cache =
               cacheResult(@, CacheKey(frame.transaction.changeInCents, frame.currency),
                           GreedyCalculateChange(frame.transaction, frame.currency).denominations)]
  /\ StrategyReturns(frame.caller, frame.inst,
                     Returned(frame.transaction,
                              GreedyCalculateChange(frame.transaction, frame.currency),
                              "fallback"))
  /\ UNCHANGED << mathRandom, calculator, strategies >>

\* the loops ended without a valid candidate: null is returned and the
\* strategy falls back to a new GreedyChangeStrategy
SearchFallback ==
  /\ frame.pc = "search"
  /\ frame.strategyIndex > NumStrategies
  /\ frame' = IdleFrame
  /\ StrategyReturns(frame.caller, frame.inst,
                     Returned(frame.transaction,
                              GreedyCalculateChange(frame.transaction, frame.currency),
                              "fallback"))
  /\ UNCHANGED << mathRandom, rcs, calculator, strategies >>

\* The change amounts of the calls.  With US coins 3 has one valid mapping
\* and every heuristic can miss it; 8 and 9 have several valid mappings and
\* every heuristic can miss them; 3 and 9 are divisible by 3, 8 by 2.
SampleChanges == {0, 3, 8, 9}

\* the amounts paid that go with an amount owed: negative, one cent short,
\* and owed plus a sample change
PaidAmounts(owed) == {-1, owed - 1} \cup {owed + c : c \in SampleChanges}

FactoryInstance ==
  [constructed |-> TRUE, seeded |-> FALSE, randomSeed |-> 0, cache |-> << >>]

\* a calculator built with a registry currency, a special rule and the
\* default factory
Init ==
  /\ mathRandom = NativeRandom
  /\ rcs = [i \in Instances |-> IF i = "factory" THEN FactoryInstance ELSE Unconstructed]
  /\ calculator \in {[currency |-> c, specialRuleConfig |-> Config(d)]
                       : c \in CURRENCY_REGISTRY, d \in 1..MaxDivisor}
  /\ strategies = DefaultStrategies
  /\ frame = IdleFrame
  /\ batch = NoBatch
  /\ result = NoResult
  /\ hist = [i \in Instances |-> << >>]

Next ==
  \/ \E owed \in -1..MaxOwed : \E paid \in PaidAmounts(owed) : CalculateChange(owed, paid)
  \/ SearchAttempt
  \/ SearchFallback

Spec == Init /\ [][Next]_vars

\* What one pass of generateOptimizedRandomCombination, or its end, does to
\* the position of the call: the call returns (a valid candidate, or the
\* fallback after the loops) or moves to the next loop position.  In a
\* behaviour of Spec the steps that satisfy SearchStep are exactly the steps
\* of SearchAttempt and SearchFallback.
SearchStep ==
  /\ frame.pc = "search"
  /\ frame' \in {IdleFrame, NextPosition(frame)}

\* calculateChange runs to completion: it is synchronous code that nothing
\* suspends, so a call that is inside the search takes its next step.
FairSpec == Spec /\ WF_frame(SearchStep)

(***************************************************************************)
(* Specification SpecFactory: getStrategy of a default factory, asked      *)
(* about any transaction, with and without a config.                       *)
(***************************************************************************)
GetStrategy(transaction, config) ==
  /\ result = [kind |-> "ask", transaction |-> transaction, config |-> config]
  /\ result' = [kind |-> "strategy", transaction |-> transaction, config |-> config,
                strategy |-> getStrategy(strategies, transaction, config)]
  /\ UNCHANGED << mathRandom, rcs, calculator, strategies, frame, batch, hist >>

InitFactory ==
  /\ mathRandom = NativeRandom
  /\ rcs = [i \in Instances |-> IF i = "factory" THEN FactoryInstance ELSE Unconstructed]
  /\ calculator = [currency |-> US_CURRENCY, specialRuleConfig |-> NoConfig]
  /\ strategies = DefaultStrategies
  /\ frame = IdleFrame
  /\ batch = NoBatch
  /\ \E owed \in 0..MaxOwed, change \in 0..MaxChange,
        config \in {NoConfig} \cup {Config(d) : d \in 1..MaxDivisor} :
       result = [kind |-> "ask", transaction |-> Transaction(owed, owed + change),
                 config |-> config]
  /\ hist = [i \in Instances |-> << >>]

\* getStrategy with the transaction and the config that were drawn
NextFactory ==
  /\ result.kind = "ask"
  /\ GetStrategy(result.transaction, result.config)

SpecFactory == InitFactory /\ [][NextFactory]_vars

(***************************************************************************)
(* Specification SpecCustom: addStrategy calls on a factory, then          *)
(* getStrategy.  hist["factory"] lists the strategies in the order added.  *)
(***************************************************************************)
AddStrategy(strategy) ==
  /\ result.kind = "ask"
  /\ Len(hist["factory"]) < MaxAdded
  /\ strategies' = addStrategy(strategies, strategy)
  /\ hist' = [hist EXCEPT !["factory"] = Append(@, strategy)]
  /\ UNCHANGED << mathRandom, rcs, calculator, frame, batch, result >>

\* getStrategy after the addStrategy calls
GetStrategyNow ==
  /\ result.kind = "ask"
  /\ GetStrategy(result.transaction, result.config)

NextCustom ==
  \/ \E strategy \in CustomStrategies : AddStrategy(strategy)
  \/ GetStrategyNow

SpecCustom == InitFactory /\ [][NextCustom]_vars

(***************************************************************************)
(* Specification SpecGreedy: GreedyChangeStrategy.calculateChange called   *)
(* with any change and a currency whose denominations are in any order.    *)
(***************************************************************************)
\* a permutation of a list: the elements at odd places, then those at even
\* places from the back
Shuffle(s) ==
  LET odd  == {i \in 1..Len(s) : i % 2 = 1}
      n    == Cardinality(odd)
  IN  [i \in 1..Len(s) |-> IF i <= n THEN s[2 * i - 1] ELSE s[2 * (Len(s) + 1 - i)]]

Reordered(currency) ==
  {currency,
   [currency EXCEPT !.denominations = Reverse(currency.denominations)],
   [currency EXCEPT !.denominations = Shuffle(currency.denominations)]}

GreedyCurrencies == UNION {Reordered(c) : c \in CURRENCY_REGISTRY}

\* a call, and the same call once more on the same instance
GreedyCall(changeInCents, currency) ==
  /\ result.changeInCents = changeInCents
  /\ result.currency = currency
  /\ result.calls < 2
  /\ result' = [kind |-> "greedy", changeInCents |-> changeInCents, currency |-> currency,
                calls |-> result.calls + 1, previous |-> result.value,
                value |-> GreedyCalculateChange(Transaction(0, changeInCents), currency)]
  /\ UNCHANGED << mathRandom, rcs, calculator, strategies, frame, batch, hist >>

NextGreedy ==
  \E changeInCents \in 0..MaxGreedyChange, currency \in GreedyCurrencies :
    GreedyCall(changeInCents, currency)

InitGreedy ==
  /\ mathRandom = NativeRandom
  /\ rcs = [i \in Instances |-> Unconstructed]
  /\ calculator = [currency |-> US_CURRENCY, specialRuleConfig |-> NoConfig]
  /\ strategies = DefaultStrategies
  /\ frame = IdleFrame
  /\ batch = NoBatch
  /\ \E changeInCents \in 0..MaxGreedyChange, currency \in GreedyCurrencies :
       result = [kind |-> "input", changeInCents |-> changeInCents, currency |-> currency,
                 calls |-> 0, previous |-> NoResult, value |-> NoResult]
  /\ hist = [i \in Instances |-> << >>]

SpecGreedy == InitGreedy /\ [][NextGreedy]_vars

(***************************************************************************)
(* Specification SpecNoUnit: GreedyChangeStrategy.calculateChange called   *)
(* with a Currency value that has no denomination of value 1.  Currency is *)
(* an interface, so a caller can pass any list of denominations: the       *)
(* empty list, the US list without the penny, and lists in any order.      *)
(***************************************************************************)
ODD_CURRENCY ==
  [code |-> "ODD",
   denominations |-> << [name |-> "three", valueInCents |-> 3],
                        [name |-> "eleven", valueInCents |-> 11],
                        [name |-> "seven", valueInCents |-> 7] >>]

\* the empty list, the US list without the penny, and the list of 3, 11 and 7
NoUnitCurrencies ==
  LET EMPTY_CURRENCY == [code |-> "XXX", denominations |-> << >>]
      US_WITHOUT_PENNY ==
        [code |-> "USD",
         denominations |-> SubSeq(US_DENOMINATIONS, 1, Len(US_DENOMINATIONS) - 1)]
  IN  {EMPTY_CURRENCY} \cup Reordered(US_WITHOUT_PENNY) \cup Reordered(ODD_CURRENCY)

NextNoUnit ==
  \E changeInCents \in 0..MaxNoUnitChange, currency \in NoUnitCurrencies :
    GreedyCall(changeInCents, currency)

InitNoUnit ==
  /\ mathRandom = NativeRandom
  /\ rcs = [i \in Instances |-> Unconstructed]
  /\ calculator = [currency |-> US_CURRENCY, specialRuleConfig |-> NoConfig]
  /\ strategies = DefaultStrategies
  /\ frame = IdleFrame
  /\ batch = NoBatch
  /\ \E changeInCents \in 0..MaxNoUnitChange, currency \in NoUnitCurrencies :
       result = [kind |-> "input", changeInCents |-> changeInCents, currency |-> currency,
                 calls |-> 0, previous |-> NoResult, value |-> NoResult]
  /\ hist = [i \in Instances |-> << >>]

SpecNoUnit == InitNoUnit /\ [][NextNoUnit]_vars

(***************************************************************************)
(* Specification SpecDirect: RandomChangeStrategy instances built with     *)
(* new, with or without a seed, and called directly.  All of them draw     *)
(* from the one Math.random.                                               *)
(***************************************************************************)
\* the seed of the repository's tests, and another one
TestSeed == 12345

Seeds == {1, TestSeed}

\* setupSeededRandom: Math.random becomes a closure over a copy of the seed
setupSeededRandom(randomSeed) == SeededRandom(randomSeed)

\* new RandomChangeStrategy(randomSeed?)
Construct(inst, seeded, randomSeed) ==
  /\ frame.pc = "idle"
  /\ ~rcs[inst].constructed
  /\ rcs' = [rcs EXCEPT ![inst] = [constructed |-> TRUE, seeded |-> seeded,
                                   randomSeed |-> randomSeed, cache |-> << >>]]
  /\ mathRandom' = IF seeded THEN setupSeededRandom(randomSeed) ELSE mathRandom
  /\ UNCHANGED << calculator, strategies, frame, batch, result, hist >>

CallsMade == Len(hist["A"]) + Len(hist["B"])

\* strategy.calculateChange(transaction, currency) on an instance
StrategyCall(inst, changeInCents, currency) ==
  /\ frame.pc = "idle"
  /\ rcs[inst].constructed
  /\ CallsMade < MaxCalls
  /\ RandomCalculateChange("direct", inst, Transaction(0, changeInCents), currency)
  /\ UNCHANGED << mathRandom, rcs, calculator, strategies >>

DirectInstances == {"A", "B"}

\* With US coins every heuristic can miss 8; the first heuristic finds 75 at
\* once, as 3 quarters or as 2 quarters, 2 dimes and 1 nickel.
DirectChanges == {8, 75}

InitDirect ==
  /\ mathRandom = NativeRandom
  /\ rcs = [i \in Instances |-> Unconstructed]
  /\ calculator = [currency |-> US_CURRENCY, specialRuleConfig |-> Config(3)]
  /\ strategies = DefaultStrategies
  /\ frame = IdleFrame
  /\ batch = NoBatch
  /\ result = NoResult
  /\ hist = [i \in Instances |-> << >>]

NextDirect ==
  \/ \E inst \in DirectInstances, randomSeed \in Seeds : Construct(inst, TRUE, randomSeed)
  \/ \E inst \in DirectInstances : Construct(inst, FALSE, 0)
  \/ \E inst \in DirectInstances, change \in DirectChanges :
       StrategyCall(inst, change, US_CURRENCY)
  \/ SearchAttempt
  \/ SearchFallback

SpecDirect == InitDirect /\ [][NextDirect]_vars

(***************************************************************************)
(* Specification SpecBatch: processTransactions on lists of pairs.  An     *)
(* amount is a number of thousandths of the currency unit: 34 is 0.034.    *)
(***************************************************************************)
\* Math.floor(amount * 100) in place of Math.round
RoundCents_Floor(thousandths) == thousandths \div 10

\* Math.round(amount * 100) in doubles, amount being the double nearest to
\* thousandths / 1000.  Off a half cent the product is nearer to the right
\* integer than to a half and Math.round gives the nearest integer.  On a half
\* cent, size / 10 with size the thousandths without their sign, the result
\* depends on the side of the half the double product falls on.  The double
\* size / 1000 is m * 2^(a - 55) with 2^a <= size / 125 < 2^(a + 1) and m the
\* integer nearest to size * 2^(52 - a) / 125; with
\* r = size * 2^(52 - a) mod 125 it is r / 125 units of its last place below
\* the quotient when r is less than half of 125, and (125 - r) / 125 above it
\* otherwise.  Times 100 this moves the product off the half when it is more
\* than half the distance to the next double on that side, 2^j <= size / 10
\* < 2^(j + 1) giving that distance.  Math.round takes a half, and what is
\* above it, up, also for negative numbers.
RoundCents(thousandths) ==
  LET size == IF thousandths < 0 THEN 0 - thousandths ELSE thousandths
      RECURSIVE PowerOfTwoMod(_)
      PowerOfTwoMod(e) == IF e = 0 THEN 1 ELSE (2 * PowerOfTwoMod(e - 1)) % 125
      Binade(den) ==
        CHOOSE a \in -7..24 :
          IF a >= 0 THEN den * 2^a <= size /\ size \div 2^(a + 1) < den
          ELSE den <= size * 2^(0 - a) /\ size * 2^(0 - a) < 2 * den
  IN  IF thousandths % 10 # 5 THEN (thousandths + 5) \div 10
      ELSE LET a == Binade(125)
               j == Binade(10)
               r == ((size % 125) * PowerOfTwoMod(52 - a)) % 125
               powerOfTwo == IF j >= 0 THEN size = 10 * 2^j ELSE size * 2^(0 - j) = 10
               side == IF r = 0 THEN 0
                       ELSE IF 2 * r < 125
                       THEN (IF r > 5 * 2^(j - a - (IF powerOfTwo THEN 1 ELSE 0))
                             THEN -1 ELSE 0)
                       ELSE (IF 125 - r > 5 * 2^(j - a) THEN 1 ELSE 0)
           IN  IF thousandths > 0
               THEN (IF side < 0 THEN (size - 5) \div 10 ELSE (size + 5) \div 10)
               ELSE (IF side > 0 THEN 0 - ((size + 5) \div 10)
                     ELSE 0 - ((size - 5) \div 10))

\* processTransactions up to the first callback of map; an empty list
\* returns an empty list
ProcessTransactions(transactions) ==
  /\ frame.pc = "idle"
  /\ ~batch.active
  /\ IF transactions = << >>
     THEN /\ result' = [kind |-> "batch", transactions |-> transactions,
                        outputs |-> << >>, results |-> << >>]
          /\ UNCHANGED batch
     ELSE /\ result' = NoResult
          /\ batch' = [active |-> TRUE, caller |-> "processTransactions",
                       transactions |-> transactions,
                       pending |-> transactions, outputs |-> << >>, results |-> << >>]
  /\ UNCHANGED << mathRandom, rcs, calculator, strategies, frame, hist >>

\* the callback of map on the next pair
BatchItem ==
  /\ frame.pc = "idle"
  /\ batch.active
  /\ LET amountOwed == Head(batch.pending)[1]
         amountPaid == Head(batch.pending)[2]
     IN  CalculatorCalculateChange(RoundCents(amountOwed), RoundCents(amountPaid))
  /\ UNCHANGED << mathRandom, rcs, calculator, strategies >>

\* The pairs of the lists: 0.006 paid with 0.096 (1 and 10 cents, change 9),
\* 0.034 paid with 0.034 (no change), -0.004 paid with 0.006 (0 and 1 cent),
\* 0.096 paid with 0.006 (too little), -0.010 paid with 0.006 (negative) and
\* 0.045 paid with 0.145, two half cents: 0.045 * 100 is 4.5 and rounds to 5,
\* 0.145 * 100 is 14.499999999999998 and rounds to 14 (change 9).
BatchPairs ==
  {<< 6, 96 >>, << 34, 34 >>, << -4, 6 >>, << 96, 6 >>, << -10, 6 >>, << 45, 145 >>}

NextBatch ==
  \/ \E transactions \in UNION {[1..n -> BatchPairs] : n \in 0..MaxBatch} :
       ProcessTransactions(transactions)
  \/ BatchItem
  \/ SearchAttempt
  \/ SearchFallback

SpecBatch == Init /\ [][NextBatch]_vars

(***************************************************************************)
(* Specification SpecFormat: formatOutput applied to the mappings the two  *)
(* strategies return.                                                      *)
(***************************************************************************)
\* the mappings generateOptimizedRandomCombination can return for a change:
\* the valid candidates of the three heuristics
SearchResults(changeInCents, currency) ==
  {candidate.denominations :
     candidate \in {c \in UNION {Candidates(strategyIndex, changeInCents, currency,
                                            NativeRandom)
                                 : strategyIndex \in 1..NumStrategies} :
                      isValidCombination(c.denominations, changeInCents, currency)}}

\* formatOutput(denominations) of the strategy that made the mapping
FormatOutput ==
  /\ result.kind = "mapping"
  /\ result' = [kind |-> "formatted", strategy |-> result.strategy,
                currency |-> result.currency, denominations |-> result.denominations,
                formattedOutput |-> formatOutput(result.denominations)]
  /\ UNCHANGED << mathRandom, rcs, calculator, strategies, frame, batch, hist >>

InitFormat ==
  /\ mathRandom = NativeRandom
  /\ rcs = [i \in Instances |-> Unconstructed]
  /\ calculator = [currency |-> US_CURRENCY, specialRuleConfig |-> NoConfig]
  /\ strategies = DefaultStrategies
  /\ frame = IdleFrame
  /\ batch = NoBatch
  /\ \E changeInCents \in 0..MaxFormatChange, currency \in CURRENCY_REGISTRY :
       \/ result = [kind |-> "mapping", strategy |-> "greedy", currency |-> currency,
                    denominations |->
                      GreedyCalculateChange(Transaction(0, changeInCents),
                                            currency).denominations]
       \/ \E denominations \in SearchResults(changeInCents, currency) :
            result = [kind |-> "mapping", strategy |-> "random", currency |-> currency,
                      denominations |-> denominations]
  /\ hist = [i \in Instances |-> << >>]

NextFormat == FormatOutput

SpecFormat == InitFormat /\ [][NextFormat]_vars

(***************************************************************************)
(* Specification SpecApi: the handlers of /api/v1/change/calculate and     *)
(* /api/v1/change/batch.  The amounts of a request body are JavaScript     *)
(* numbers with two decimals.  The handlers pass them to calculateChange   *)
(* as they are, so the calculator computes with doubles that are not whole *)
(* numbers of cents; every number of that computation is kept as described *)
(* at DoubleSum, the denomination values and the divisor included.         *)
(***************************************************************************)
\* a currency of the registry, its values as doubles
CurrencyAsDoubles(currency) ==
  [code |-> currency.code,
   unit |-> Decimal(100),
   denominations |->
     [i \in 1..Len(currency.denominations) |->
        [name |-> currency.denominations[i].name,
         valueInCents |-> Decimal(100 * currency.denominations[i].valueInCents)]]]

\* getCurrencyByCode: CURRENCY_REGISTRY[code] is the currency of a code of
\* the registry.  For a name every object inherits from Object.prototype it
\* is that inherited value, which is truthy and is returned: an object with
\* neither code nor denominations.  For any other string it is undefined and
\* the function throws.
getCurrencyByCode(code) ==
  LET inherited == {"constructor", "toString", "toLocaleString", "valueOf",
                    "hasOwnProperty", "isPrototypeOf", "propertyIsEnumerable",
                    "__proto__", "__defineGetter__", "__defineSetter__",
                    "__lookupGetter__", "__lookupSetter__"}
  IN  IF \E currency \in CURRENCY_REGISTRY : currency.code = code
      THEN [kind |-> "return",
            value |-> CHOOSE currency \in CURRENCY_REGISTRY : currency.code = code]
      ELSE IF code \in inherited
      THEN [kind |-> "return", value |-> [code |-> "undefined", denominations |-> << >>]]
      ELSE [kind |-> "throw", error |-> "Error",
            message |-> "Unsupported currency code: " \o code]

\* specialRuleConfig of the handlers: divisor 3
HandlerDivisor == 3

\* res.status(status).json({ error }) of a handler
ErrorResponse(route, status, error) ==
  [kind |-> "response", route |-> route, status |-> status, error |-> error]

\* the calculate handler up to new ChangeCalculator(currency,
\* specialRuleConfig): the checks of the method and of the body, and
\* getCurrencyByCode, whose error the handler's catch answers with 500; the
\* new calculator has a new factory and so a new RandomChangeStrategy with an
\* empty cache
HandlerRequest(method, amountOwed, amountPaid, currencyCode) ==
  /\ frame.pc = "idle"
  /\ ~batch.active
  /\ result.kind # "request"
  /\ UNCHANGED << mathRandom, strategies, frame, batch, hist >>
  /\ \E currency \in {getCurrencyByCode(currencyCode)} :
       IF method # "POST"
       THEN /\ result' = [owed |-> amountOwed, paid |-> amountPaid] @@
                         ErrorResponse("calculate", 405, "Method not allowed")
            /\ UNCHANGED << rcs, calculator >>
       ELSE IF amountOwed = 0 \/ amountPaid = 0
       THEN /\ result' = [owed |-> amountOwed, paid |-> amountPaid] @@
                         ErrorResponse("calculate", 400,
                                       "amountOwed and amountPaid are required")
            /\ UNCHANGED << rcs, calculator >>
       ELSE IF amountPaid < amountOwed
       THEN /\ result' = [owed |-> amountOwed, paid |-> amountPaid] @@
                         ErrorResponse("calculate", 400, "Insufficient payment")
            /\ UNCHANGED << rcs, calculator >>
       ELSE IF currency.kind = "throw"
       THEN /\ result' = [owed |-> amountOwed, paid |-> amountPaid] @@
                         ErrorResponse("calculate", 500, "Internal server error")
            /\ UNCHANGED << rcs, calculator >>
       ELSE /\ result' = [kind |-> "request", owed |-> amountOwed, paid |-> amountPaid]
            /\ calculator' = [currency |-> CurrencyAsDoubles(currency.value),
                              specialRuleConfig |-> Config(Decimal(100 * HandlerDivisor))]
            /\ rcs' = [rcs EXCEPT !["factory"] = FactoryInstance]

\* calculator.calculateChange(amountOwed, amountPaid) of the calculate
\* handler; what it returns is the data of the 200 response, what it throws
\* becomes the 500 response
HandlerCalculate ==
  /\ frame.pc = "idle"
  /\ result.kind = "request"
  /\ \E changeInCents \in {IF validateAmounts(result.owed, result.paid) = "ok"
                            THEN DoubleSum(result.paid, 0 - result.owed) ELSE 0} :
       CalculateChangeOf(result.owed, result.paid, changeInCents)
  /\ UNCHANGED << mathRandom, rcs, calculator, strategies >>

\* the batch handler up to the first callback of transactions.map: the
\* checks of the method and of the body, getCurrencyByCode and the one
\* calculator of the request.  isArray is FALSE for a body whose
\* transactions are missing or not an array.
HandlerBatchRequest(method, isArray, transactions, currency) ==
  /\ frame.pc = "idle"
  /\ ~batch.active
  /\ result.kind # "request"
  /\ UNCHANGED << mathRandom, strategies, frame, hist >>
  /\ \E currencyConfig \in {getCurrencyByCode(currency)} :
       IF method # "POST"
       THEN /\ result' = ErrorResponse("batch", 405, "Method not allowed")
            /\ UNCHANGED << rcs, calculator, batch >>
       ELSE IF ~isArray
       THEN /\ result' = ErrorResponse("batch", 400, "transactions array is required")
            /\ UNCHANGED << rcs, calculator, batch >>
       ELSE IF transactions = << >>
       THEN /\ result' = ErrorResponse("batch", 400, "At least one transaction is required")
            /\ UNCHANGED << rcs, calculator, batch >>
       ELSE IF currencyConfig.kind = "throw"
       THEN /\ result' = ErrorResponse("batch", 500, "Internal server error")
            /\ UNCHANGED << rcs, calculator, batch >>
       ELSE /\ result' = NoResult
            /\ batch' = [active |-> TRUE, caller |-> "handler", currency |-> currency,
                         transactions |-> transactions, pending |-> transactions,
                         results |-> << >>]
            /\ calculator' = [currency |-> CurrencyAsDoubles(currencyConfig.value),
                              specialRuleConfig |-> Config(Decimal(100 * HandlerDivisor))]
            /\ rcs' = [rcs EXCEPT !["factory"] = FactoryInstance]

\* the callback of transactions.map on the next transaction:
\* calculator.calculateChange(transaction.amountOwed, transaction.amountPaid)
HandlerBatchItem ==
  /\ frame.pc = "idle"
  /\ batch.active
  /\ batch.caller = "handler"
  /\ \E amountOwed \in {Head(batch.pending)[1]}, amountPaid \in {Head(batch.pending)[2]} :
       \E changeInCents \in {IF validateAmounts(amountOwed, amountPaid) = "ok"
                              THEN DoubleSum(amountPaid, 0 - amountOwed) ELSE 0} :
         CalculateChangeOf(amountOwed, amountPaid, changeInCents)
  /\ UNCHANGED << mathRandom, rcs, calculator, strategies >>

\* amounts of the request bodies: 0, -1.00, 0.13, 1.00, 1.13, 2.00, 2.12,
\* 3.00 and 5.00
ApiAmounts == {Decimal(h) : h \in {0, -100, 13, 100, 113, 200, 212, 300, 500}}

\* transactions of the batch bodies, as << amountOwed, amountPaid >>: 2.12
\* paid with 3.00, 2.00 paid with 5.00, 0.13 paid with 1.13, nothing owed and
\* 3.00 paid, 3.00 paid with 2.00 and -1.00 paid with 1.00
ApiBatches ==
  LET pairs == {<< Decimal(212), Decimal(300) >>, << Decimal(200), Decimal(500) >>,
                << Decimal(13), Decimal(113) >>, << 0, Decimal(300) >>,
                << Decimal(300), Decimal(200) >>, << Decimal(-100), Decimal(100) >>}
  IN  UNION {[1..n -> pairs] : n \in 0..MaxBatch}

NextApi ==
  \/ \E method \in {"POST", "GET"}, amountOwed \in ApiAmounts, amountPaid \in ApiAmounts,
        currencyCode \in {"USD", "EUR", "GBP", "constructor"} :
       HandlerRequest(method, amountOwed, amountPaid, currencyCode)
  \/ HandlerCalculate
  \/ \E method \in {"POST", "GET"}, isArray \in BOOLEAN, transactions \in ApiBatches,
        currency \in {"USD", "EUR", "GBP", "constructor"} :
       HandlerBatchRequest(method, isArray, transactions, currency)
  \/ HandlerBatchItem
  \/ SearchAttempt
  \/ SearchFallback

InitApi ==
  /\ mathRandom = NativeRandom
  /\ rcs = [i \in Instances |-> Unconstructed]
  /\ calculator = [currency |-> CurrencyAsDoubles(US_CURRENCY),
                   specialRuleConfig |-> Config(Decimal(100 * HandlerDivisor))]
  /\ strategies = DefaultStrategies
  /\ frame = IdleFrame
  /\ batch = NoBatch
  /\ result = NoResult
  /\ hist = [i \in Instances |-> << >>]

SpecApi == InitApi /\ [][NextApi]_vars

(***************************************************************************)
(* Specification SpecCsv: FileProcessor.readTransactionsFromCSV.  A string *)
(* is a sequence of one-character strings; a parsed amount is kept as its  *)
(* number of thousandths, as in SpecBatch.                                  *)
(***************************************************************************)
DigitValue(char) == CHOOSE n \in 0..9 : ToString(n) = char

\* the characters String.prototype.trim and parseFloat skip: WhiteSpace and
\* LineTerminator of ECMAScript.  A character that cannot be written in a
\* string here is named by its code point; "U+000B" is the '\v' of the source.
WhiteSpace ==
  {" ", "\t", "\r", "\n", "\f", "U+000B", "U+00A0", "U+1680", "U+2000", "U+2001",
   "U+2002", "U+2003", "U+2004", "U+2005", "U+2006", "U+2007", "U+2008", "U+2009",
   "U+200A", "U+2028", "U+2029", "U+202F", "U+205F", "U+3000", "U+FEFF"}

RECURSIVE TrimStart(_)
TrimStart(str) ==
  IF str # << >> /\ Head(str) \in WhiteSpace THEN TrimStart(Tail(str)) ELSE str

RECURSIVE TrimEnd(_)
TrimEnd(str) ==
  IF str # << >> /\ str[Len(str)] \in WhiteSpace
  THEN TrimEnd(SubSeq(str, 1, Len(str) - 1))
  ELSE str

\* String.prototype.trim
Trim(str) == TrimEnd(TrimStart(str))

\* String.prototype.split with a one-character separator
RECURSIVE Split(_, _)
Split(str, separator) ==
  LET at == {i \in 1..Len(str) : str[i] = separator}
  IN  IF at = {} THEN << str >>
      ELSE LET i == CHOOSE i \in at : \A j \in at : i <= j
           IN  << SubSeq(str, 1, i - 1) >> \o Split(SubSeq(str, i + 1, Len(str)), separator)

\* the digits a string starts with
LeadingDigits(str) ==
  LET Digits == {"0", "1", "2", "3", "4", "5", "6", "7", "8", "9"}
      others == {i \in 1..Len(str) : str[i] \notin Digits}
  IN  IF others = {} THEN str
      ELSE SubSeq(str, 1, (CHOOSE i \in others : \A j \in others : i <= j) - 1)

RECURSIVE DigitsValue(_)
DigitsValue(digits) ==
  IF digits = << >> THEN 0
  ELSE 10 * DigitsValue(SubSeq(digits, 1, Len(digits) - 1)) + DigitValue(digits[Len(digits)])

\* parseFloat: the number written by the longest prefix, after leading white
\* space, that is a decimal literal: a sign, then 'Infinity' or digits with a
\* fraction and an exponent.  NaN when there is no such prefix.  The number
\* is digits * 10^exponent, digits without zeros at either end (none for
\* zero); the value of the source is the double nearest to it.  A number of
\* 2^1024 - 2^970 or more is Infinity and one of 2^-1075 or less is zero;
\* negative is amount < 0, which -0 is not.
parseFloat(str) ==
  LET NotANumber == [nan |-> TRUE, infinite |-> FALSE, negative |-> FALSE,
                     digits |-> << >>, exponent |-> 0]
      Infinite(minus) == [nan |-> FALSE, infinite |-> TRUE, negative |-> minus,
                          digits |-> << >>, exponent |-> 0]
      Zero == [nan |-> FALSE, infinite |-> FALSE, negative |-> FALSE,
               digits |-> << >>, exponent |-> 0]
      \* the digits of 2^1024 - 2^970, which is 0.1797... * 10^309
      overflow ==
        << 1, 7, 9, 7, 6, 9, 3, 1, 3, 4, 8, 6, 2, 3, 1, 5, 8, 0, 7, 9, 3, 7, 2, 8, 9, 7, 1, 4, 0, 5,
           3, 0, 3, 4, 1, 5, 0, 7, 9, 9, 3, 4, 1, 3, 2, 7, 1, 0, 0, 3, 7, 8, 2, 6, 9, 3, 6, 1, 7, 3,
           7, 7, 8, 9, 8, 0, 4, 4, 4, 9, 6, 8, 2, 9, 2, 7, 6, 4, 7, 5, 0, 9, 4, 6, 6, 4, 9, 0, 1, 7,
           9, 7, 7, 5, 8, 7, 2, 0, 7, 0, 9, 6, 3, 3, 0, 2, 8, 6, 4, 1, 6, 6, 9, 2, 8, 8, 7, 9, 1, 0,
           9, 4, 6, 5, 5, 5, 5, 4, 7, 8, 5, 1, 9, 4, 0, 4, 0, 2, 6, 3, 0, 6, 5, 7, 4, 8, 8, 6, 7, 1,
           5, 0, 5, 8, 2, 0, 6, 8, 1, 9, 0, 8, 9, 0, 2, 0, 0, 0, 7, 0, 8, 3, 8, 3, 6, 7, 6, 2, 7, 3,
           8, 5, 4, 8, 4, 5, 8, 1, 7, 7, 1, 1, 5, 3, 1, 7, 6, 4, 4, 7, 5, 7, 3, 0, 2, 7, 0, 0, 6, 9,
           8, 5, 5, 5, 7, 1, 3, 6, 6, 9, 5, 9, 6, 2, 2, 8, 4, 2, 9, 1, 4, 8, 1, 9, 8, 6, 0, 8, 3, 4,
           9, 3, 6, 4, 7, 5, 2, 9, 2, 7, 1, 9, 0, 7, 4, 1, 6, 8, 4, 4, 4, 3, 6, 5, 5, 1, 0, 7, 0, 4,
           3, 4, 2, 7, 1, 1, 5, 5, 9, 6, 9, 9, 5, 0, 8, 0, 9, 3, 0, 4, 2, 8, 8, 0, 1, 7, 7, 9, 0, 4,
           1, 7, 4, 4, 9, 7, 7, 9, 2 >>
      \* the digits of 2^-1075, which is 0.2470... * 10^-323
      underflow ==
        << 2, 4, 7, 0, 3, 2, 8, 2, 2, 9, 2, 0, 6, 2, 3, 2, 7, 2, 0, 8, 8, 2, 8, 4, 3, 9, 6, 4, 3, 4,
           1, 1, 0, 6, 8, 6, 1, 8, 2, 5, 2, 9, 9, 0, 1, 3, 0, 7, 1, 6, 2, 3, 8, 2, 2, 1, 2, 7, 9, 2,
           8, 4, 1, 2, 5, 0, 3, 3, 7, 7, 5, 3, 6, 3, 5, 1, 0, 4, 3, 7, 5, 9, 3, 2, 6, 4, 9, 9, 1, 8,
           1, 8, 0, 8, 1, 7, 9, 9, 6, 1, 8, 9, 8, 9, 8, 2, 8, 2, 3, 4, 7, 7, 2, 2, 8, 5, 8, 8, 6, 5,
           4, 6, 3, 3, 2, 8, 3, 5, 5, 1, 7, 7, 9, 6, 9, 8, 9, 8, 1, 9, 9, 3, 8, 7, 3, 9, 8, 0, 0, 5,
           3, 9, 0, 9, 3, 9, 0, 6, 3, 1, 5, 0, 3, 5, 6, 5, 9, 5, 1, 5, 5, 7, 0, 2, 2, 6, 3, 9, 2, 2,
           9, 0, 8, 5, 8, 3, 9, 2, 4, 4, 9, 1, 0, 5, 1, 8, 4, 4, 3, 5, 9, 3, 1, 8, 0, 2, 8, 4, 9, 9,
           3, 6, 5, 3, 6, 1, 5, 2, 5, 0, 0, 3, 1, 9, 3, 7, 0, 4, 5, 7, 6, 7, 8, 2, 4, 9, 2, 1, 9, 3,
           6, 5, 6, 2, 3, 6, 6, 9, 8, 6, 3, 6, 5, 8, 4, 8, 0, 7, 5, 7, 0, 0, 1, 5, 8, 5, 7, 6, 9, 2,
           6, 9, 9, 0, 3, 7, 0, 6, 3, 1, 1, 9, 2, 8, 2, 7, 9, 5, 5, 8, 5, 5, 1, 3, 3, 2, 9, 2, 7, 8,
           3, 4, 3, 3, 8, 4, 0, 9, 3, 5, 1, 9, 7, 8, 0, 1, 5, 5, 3, 1, 2, 4, 6, 5, 9, 7, 2, 6, 3, 5,
           7, 9, 5, 7, 4, 6, 2, 2, 7, 6, 6, 4, 6, 5, 2, 7, 2, 8, 2, 7, 2, 2, 0, 0, 5, 6, 3, 7, 4, 0,
           0, 6, 4, 8, 5, 4, 9, 9, 9, 7, 7, 0, 9, 6, 5, 9, 9, 4, 7, 0, 4, 5, 4, 0, 2, 0, 8, 2, 8, 1,
           6, 6, 2, 2, 6, 2, 3, 7, 8, 5, 7, 3, 9, 3, 4, 5, 0, 7, 3, 6, 3, 3, 9, 0, 0, 7, 9, 6, 7, 7,
           6, 1, 9, 3, 0, 5, 7, 7, 5, 0, 6, 7, 4, 0, 1, 7, 6, 3, 2, 4, 6, 7, 3, 6, 0, 0, 9, 6, 8, 9,
           5, 1, 3, 4, 0, 5, 3, 5, 5, 3, 7, 4, 5, 8, 5, 1, 6, 6, 6, 1, 1, 3, 4, 2, 2, 3, 7, 6, 6, 6,
           7, 8, 6, 0, 4, 1, 6, 2, 1, 5, 9, 6, 8, 0, 4, 6, 1, 9, 1, 4, 4, 6, 7, 2, 9, 1, 8, 4, 0, 3,
           0, 0, 5, 3, 0, 0, 5, 7, 5, 3, 0, 8, 4, 9, 0, 4, 8, 7, 6, 5, 3, 9, 1, 7, 1, 1, 3, 8, 6, 5,
           9, 1, 6, 4, 6, 2, 3, 9, 5, 2, 4, 9, 1, 2, 6, 2, 3, 6, 5, 3, 8, 8, 1, 8, 7, 9, 6, 3, 6, 2,
           3, 9, 3, 7, 3, 2, 8, 0, 4, 2, 3, 8, 9, 1, 0, 1, 8, 6, 7, 2, 3, 4, 8, 4, 9, 7, 6, 6, 8, 2,
           3, 5, 0, 8, 9, 8, 6, 3, 3, 8, 8, 5, 8, 7, 9, 2, 5, 6, 2, 8, 3, 0, 2, 7, 5, 5, 9, 9, 5, 6,
           5, 7, 5, 2, 4, 4, 5, 5, 5, 0, 7, 2, 5, 5, 1, 8, 9, 3, 1, 3, 6, 9, 0, 8, 3, 6, 2, 5, 4, 7,
           7, 9, 1, 8, 6, 9, 4, 8, 6, 6, 7, 9, 9, 4, 9, 6, 8, 3, 2, 4, 0, 4, 9, 7, 0, 5, 8, 2, 1, 0,
           2, 8, 5, 1, 3, 1, 8, 5, 4, 5, 1, 3, 9, 6, 2, 1, 3, 8, 3, 7, 7, 2, 2, 8, 2, 6, 1, 4, 5, 4,
           3, 7, 6, 9, 3, 4, 1, 2, 5, 3, 2, 0, 9, 8, 5, 9, 1, 3, 2, 7, 6, 6, 7, 2, 3, 6, 3, 2, 8, 1,
           2, 5 >>
      NonZero(digits) == {i \in 1..Len(digits) : digits[i] # "0"}
      StripStart(digits) ==
        IF NonZero(digits) = {} THEN << >>
        ELSE SubSeq(digits, CHOOSE i \in NonZero(digits) : \A j \in NonZero(digits) : i <= j,
                    Len(digits))
      StripEnd(digits) ==
        IF NonZero(digits) = {} THEN << >>
        ELSE SubSeq(digits, 1,
                    CHOOSE i \in NonZero(digits) : \A j \in NonZero(digits) : i >= j)
      \* 0.digits against 0.limit, neither ending in a zero: -1 below, 0 equal,
      \* 1 above
      Differ(digits, limit) ==
        {i \in 1..Len(limit) : i > Len(digits) \/ DigitValue(digits[i]) # limit[i]}
      First(digits, limit, i) ==
        IF i > Len(digits) \/ DigitValue(digits[i]) < limit[i] THEN -1 ELSE 1
      Compare(digits, limit) ==
        IF Differ(digits, limit) = {}
        THEN (IF Len(digits) > Len(limit) THEN 1 ELSE 0)
        ELSE First(digits, limit,
                   CHOOSE i \in Differ(digits, limit) : \A j \in Differ(digits, limit) : i <= j)
      \* the number 0.digits * 10^top
      Rounded(minus, digits, top) ==
        IF digits = << >> \/ top < -323 \/ (top = -323 /\ Compare(digits, underflow) <= 0)
        THEN Zero
        ELSE IF top > 309 \/ (top = 309 /\ Compare(digits, overflow) >= 0)
        THEN Infinite(minus)
        ELSE [nan |-> FALSE, infinite |-> FALSE, negative |-> minus,
              digits |-> digits, exponent |-> top - Len(digits)]
      Placed(minus, digits, top) == Rounded(minus, StripEnd(digits), top)
      Number(minus, digits, exponent) ==
        Placed(minus, StripStart(digits), Len(StripStart(digits)) + exponent)
      \* the exponent part: e or E, a sign, digits; it counts only with a digit.
      \* An exponent of ten digits or more is beyond what the digits of a
      \* text of fewer than 10^9 characters can make up for.
      Power(digits) == IF Len(digits) > 9 THEN 1000000000 ELSE DigitsValue(digits)
      SignedPower(str1) ==
        IF str1 # << >> /\ Head(str1) = "-"
        THEN 0 - Power(StripStart(LeadingDigits(Tail(str1))))
        ELSE IF str1 # << >> /\ Head(str1) = "+"
        THEN Power(StripStart(LeadingDigits(Tail(str1))))
        ELSE Power(StripStart(LeadingDigits(str1)))
      ExponentPart(str1) ==
        IF str1 # << >> /\ Head(str1) \in {"e", "E"} THEN SignedPower(Tail(str1)) ELSE 0
      Literal(minus, whole, fraction, afterPoint) ==
        IF whole = << >> /\ fraction = << >> THEN NotANumber
        ELSE Number(minus, whole \o fraction,
                    ExponentPart(SubSeq(afterPoint, Len(fraction) + 1, Len(afterPoint)))
                    - Len(fraction))
      Fraction(minus, whole, rest) ==
        IF rest # << >> /\ Head(rest) = "."
        THEN Literal(minus, whole, LeadingDigits(Tail(rest)), Tail(rest))
        ELSE Literal(minus, whole, << >>, rest)
      Mantissa(minus, body, whole) ==
        Fraction(minus, whole, SubSeq(body, Len(whole) + 1, Len(body)))
      Body(minus, body) ==
        IF Len(body) >= 8
           /\ SubSeq(body, 1, 8) = << "I", "n", "f", "i", "n", "i", "t", "y" >>
        THEN Infinite(minus)
        ELSE Mantissa(minus, body, LeadingDigits(body))
      Signed(str1) ==
        IF str1 # << >> /\ Head(str1) \in {"+", "-"}
        THEN Body(Head(str1) = "-", Tail(str1))
        ELSE Body(FALSE, str1)
  IN  Signed(TrimStart(str))

\* the CSVParsingError thrown for a line; a message is kept as the parts
\* whose concatenation it is, the part taken from the line being a string of
\* the model
CSVParsingError(message, lineNumber, line) ==
  [kind |-> "throw", error |-> "CSVParsingError", code |-> "CSV_PARSING_ERROR",
   message |-> message, lineNumber |-> lineNumber, line |-> line]

\* parseAmount: the amount, or the message of the error it throws.  The
\* amount is kept as its number of thousandths; a number that is not a whole
\* number of thousandths below 10^6 is kept as parseFloat gives it.
parseAmount(amountStr, fieldName) ==
  LET Invalid(what) ==
        [ok |-> FALSE,
         message |-> << "Invalid " \o fieldName \o ": '", amountStr, "' " \o what >>]
      Thousandths(amount) ==
        IF amount.digits = << >> THEN 0
        ELSE IF amount.exponent >= -3 /\ Len(amount.digits) + amount.exponent <= 6
        THEN DigitsValue(amount.digits) * 10^(amount.exponent + 3)
        ELSE [digits |-> amount.digits, exponent |-> amount.exponent]
      DecimalPlaces(pieces) == IF Len(pieces) >= 2 THEN Len(pieces[2]) ELSE 0
      Checked(amount) ==
        IF amount.nan THEN Invalid("is not a valid number")
        ELSE IF amount.negative THEN Invalid("cannot be negative")
        ELSE IF amount.infinite THEN Invalid("must be a finite number")
        ELSE IF DecimalPlaces(Split(amountStr, ".")) > 2
        THEN Invalid("has too many decimal places")
        ELSE [ok |-> TRUE, amount |-> Thousandths(amount)]
  IN  IF amountStr = << >> THEN [ok |-> FALSE, message |-> << "Missing " \o fieldName >>]
      ELSE Checked(parseFloat(amountStr))

\* parseCSVLine: the pair, or the message of the error it throws
parseCSVLine(line) ==
  LET Pair(amountOwed, amountPaid) ==
        IF ~amountOwed.ok THEN amountOwed
        ELSE IF ~amountPaid.ok THEN amountPaid
        ELSE [ok |-> TRUE, pair |-> << amountOwed.amount, amountPaid.amount >>]
      Parts(parts) ==
        IF Len(parts) # 2
        THEN [ok |-> FALSE,
              message |-> << "Expected 2 comma-separated values, got "
                               \o ToString(Len(parts)) >>]
        ELSE Pair(parseAmount(Trim(parts[1]), "amount owed"),
                  parseAmount(Trim(parts[2]), "amount paid"))
  IN  Parts(Split(line, ","))

\* parseCSVContent: map over the lines that are not blank; the first line
\* that fails throws, with its number among those lines
parseCSVContent(content) ==
  LET NonBlank(line) == Trim(line) # << >>
      lines  == SelectSeq(Split(content, "\n"), NonBlank)
      parsed == [i \in 1..Len(lines) |-> parseCSVLine(Trim(lines[i]))]
      failed == {i \in 1..Len(lines) : ~parsed[i].ok}
  IN  IF failed # {}
      THEN LET i == CHOOSE i \in failed : \A j \in failed : i <= j
           IN  CSVParsingError(parsed[i].message, i, Trim(lines[i]))
      ELSE [kind |-> "pairs", pairs |-> [i \in 1..Len(lines) |-> parsed[i].pair]]

\* readTransactionsFromCSV is called: it runs up to await fs.readFile and
\* returns its promise, which is pending
ReadTransactionsFromCSV ==
  /\ result.kind = "file"
  /\ result' = [result EXCEPT !.kind = "pending"]
  /\ UNCHANGED << mathRandom, rcs, calculator, strategies, frame, batch, hist >>

\* new FileProcessingError(message, filePath, cause), thrown; cause is the
\* message of the error it wraps
FileProcessingError(message, filePath, cause) ==
  [kind |-> "throw", error |-> "FileProcessingError", code |-> "FILE_PROCESSING_ERROR",
   message |-> message, filePath |-> filePath, cause |-> cause]

\* what the promise of readTransactionsFromCSV settles with once fs.readFile
\* has settled: the content is parsed and the promise is fulfilled with the
\* pairs, or rejected with the CSVParsingError the catch block throws again;
\* a read that failed is rejected with a FileProcessingError that wraps its
\* error.  file.readError is the message of the error of fs.readFile.
ReadOutcome(file) ==
  IF file.readError # "none"
  THEN FileProcessingError("Failed to read file: " \o file.readError, file.filePath,
                           file.readError)
  ELSE parseCSVContent(file.content)

\* fs.readFile has settled and readTransactionsFromCSV goes on, in a later
\* turn of the event loop
ReadFileSettled ==
  /\ result.kind = "pending"
  /\ result' = [result EXCEPT !.kind = "read", !.outcome = ReadOutcome(result)]
  /\ UNCHANGED << mathRandom, rcs, calculator, strategies, frame, batch, hist >>

\* The lines of the files: the header of the documented format, rows of that
\* format with the pair they stand for, a blank line, and rows that are wrong.
SampleLines ==
  { [kind |-> "header",
     text |-> << "a", "m", "o", "u", "n", "t", "O", "w", "e", "d", ",",
                 "a", "m", "o", "u", "n", "t", "P", "a", "i", "d" >>],
    [kind |-> "data", text |-> << "2", ".", "1", "2", ",", "3", ".", "0", "0" >>,
     pair |-> << 2120, 3000 >>],
    [kind |-> "data", text |-> << "1", ".", "9", "7", ",", "2", ".", "0", "0" >>,
     pair |-> << 1970, 2000 >>],
    [kind |-> "data", text |-> << " ", "3", ".", "3", ",", " ", "5", " " >>,
     pair |-> << 3300, 5000 >>],
    [kind |-> "data", text |-> << "\f", "1", "e", "1", ",", "2", "E", "+", "1", "U+000B" >>,
     pair |-> << 10000, 20000 >>],
    [kind |-> "blank", text |-> << " ", "\f" >>],
    [kind |-> "wrong", text |-> << "5" >>],
    [kind |-> "wrong", text |-> << "1", ",", "I", "n", "f", "i", "n", "i", "t", "y" >>],
    [kind |-> "wrong", text |-> << "1", "e", "9", "9", "9", ",", "2" >>],
    [kind |-> "wrong", text |-> << "1", ".", "2", "3", "4", ",", "2" >>],
    [kind |-> "wrong", text |-> << "-", "1", ",", "2" >>] }

\* the lines joined by '\n'
RECURSIVE FileContent(_)
FileContent(rows) ==
  IF rows = << >> THEN << >>
  ELSE IF Len(rows) = 1 THEN rows[1].text
  ELSE rows[1].text \o << "\n" >> \o FileContent(Tail(rows))

InitCsv ==
  /\ mathRandom = NativeRandom
  /\ rcs = [i \in Instances |-> Unconstructed]
  /\ calculator = [currency |-> US_CURRENCY, specialRuleConfig |-> Config(3)]
  /\ strategies = DefaultStrategies
  /\ frame = IdleFrame
  /\ batch = NoBatch
  \* a file that fs.readFile reads, or a path at which it fails: readError
  \* is the message of the Error it rejects with, for a path without a file,
  \* for a directory, and for the rejection the tests give it
  /\ \/ \E n \in 0..MaxLines : \E rows \in [1..n -> SampleLines] :
          result = [kind |-> "file", filePath |-> "/test/transactions.csv",
                    rows |-> rows, content |-> FileContent(rows),
                    readError |-> "none", outcome |-> "none"]
     \/ \E failing \in
            { << "/nonexistent/file.csv",
                 "ENOENT: no such file or directory, open '/nonexistent/file.csv'" >>,
              << "/tmp", "EISDIR: illegal operation on a directory, read" >>,
              << "/test/missing.csv", "File not found" >> } :
          result = [kind |-> "file", filePath |-> failing[1],
                    rows |-> << >>, content |-> << >>,
                    readError |-> failing[2], outcome |-> "none"]
  /\ hist = [i \in Instances |-> << >>]

NextCsv ==
  \/ ReadTransactionsFromCSV
  \/ ReadFileSettled

SpecCsv == InitCsv /\ [][NextCsv]_vars

(***************************************************************************)
(* Whole calls.  calculateChange, generateOptimizedRandomCombination,      *)
(* cacheResult and processTransactions contain no await: a caller gets the *)
(* outcome of a call before any other code of the process runs.  The       *)
(* operators below give a call as a whole: the set of the outcomes it can  *)
(* have on a cache, each with the cache it leaves.  They stand for the     *)
(* same code as the steps of Spec and SpecBatch, with the engine's own     *)
(* Math.random and the strategies of a factory nothing was added to.       *)
(***************************************************************************)
\* generateOptimizedRandomCombination: the heuristics are tried in order,
\* each for its attempts, and the first valid candidate is returned.  Any
\* candidate of a heuristic can be the one drawn in an attempt, so a
\* heuristic is left only where it has a candidate that is not valid, drawn
\* in every one of its attempts; null is returned when the last one is left.
SearchOutcomes(changeInCents, currency) ==
  LET Drawn(strategyIndex) ==
        {candidate.denominations :
           candidate \in Candidates(strategyIndex, changeInCents, currency, NativeRandom)}
      IsValid(denominations) == isValidCombination(denominations, changeInCents, currency)
      Reached(strategyIndex) ==
        \A earlier \in 1..(strategyIndex - 1) : \E d \in Drawn(earlier) : ~IsValid(d)
  IN  {[found |-> TRUE, denominations |-> d] :
         d \in UNION {{d \in Drawn(strategyIndex) : IsValid(d)} :
                        strategyIndex \in {i \in 1..NumStrategies : Reached(i)}}}
        \cup (IF Reached(NumStrategies + 1)
              THEN {[found |-> FALSE, denominations |-> << >>]}
              ELSE {})

\* ChangeCalculator.calculateChange of a calculator with the given currency
\* and specialRuleConfig, cache being the cache of the RandomChangeStrategy
\* of its factory: validateAmounts, the return for no change, getStrategy,
\* and the calculateChange of the strategy, which for the random one is the
\* cache lookup, the search, cacheResult or the greedy fallback
CalculateOutcomes(cache, currency, config, amountOwedInCents, amountPaidInCents) ==
  LET error == validateAmounts(amountOwedInCents, amountPaidInCents)
      transaction == Transaction(amountOwedInCents, amountPaidInCents)
      changeInCents == transaction.changeInCents
      cacheKey == CacheKey(changeInCents, currency)
      strategy == getStrategy(DefaultStrategies, transaction, config)
      greedy == GreedyCalculateChange(transaction, currency)
  IN  IF error # "ok"
      THEN {[outcome |-> Thrown(amountOwedInCents, amountPaidInCents, error),
             cache |-> cache]}
      ELSE IF changeInCents = 0
      THEN {[outcome |-> Returned(transaction, ChangeResult(0, << >>), "zero"),
             cache |-> cache]}
      ELSE IF strategy # "random"
      THEN {[outcome |-> Returned(transaction, greedy, strategy), cache |-> cache]}
      ELSE IF CacheHas(cache, cacheKey)
      THEN {[outcome |-> Returned(transaction,
                                  ChangeResult(changeInCents, CacheGet(cache, cacheKey)),
                                  "cache"),
             cache |-> cache]}
      ELSE {IF bestResult.found
            THEN [outcome |-> Returned(transaction,
                                       ChangeResult(changeInCents, bestResult.denominations),
                                       "search"),
                  cache |-> cacheResult(cache, cacheKey, bestResult.denominations)]
            ELSE [outcome |-> Returned(transaction, greedy, "fallback"), cache |-> cache] :
              bestResult \in SearchOutcomes(changeInCents, currency)}

\* transactions.map(... calculator.calculateChange(Math.round(amountOwed * 100),
\* Math.round(amountPaid * 100))) of processTransactions and of
\* calculateBatchChange, the amounts being numbers of thousandths: the
\* results in the order of the transactions with the cache after the last
\* call, or the error of the first call that throws, which leaves map, with
\* the results before it
RECURSIVE MapOutcomes(_, _, _, _)
MapOutcomes(cache, currency, config, transactions) ==
  IF transactions = << >>
  THEN {[kind |-> "return", results |-> << >>, cache |-> cache]}
  ELSE UNION
         {IF first.outcome.kind = "throw"
          THEN {[kind |-> "throw", results |-> << >>, error |-> first.outcome,
                 cache |-> first.cache]}
          ELSE {[rest EXCEPT !.results = << first.outcome.value >> \o @] :
                  rest \in MapOutcomes(first.cache, currency, config, Tail(transactions))} :
            first \in CalculateOutcomes(cache, currency, config,
                                        RoundCents(Head(transactions)[1]),
                                        RoundCents(Head(transactions)[2]))}

(***************************************************************************)
(* Specification SpecCli: calls of CLIRunner.run on one runner, each with  *)
(* an input file and an output file.  The runner owns the calculator;      *)
(* calculator.runs holds, for every call of run, its position at its       *)
(* awaits, its files, the methods it called so far, what its awaited       *)
(* promises settled with and the error it rejected with.  An action is the *)
(* code that runs between two awaits: a call runs up to its first await,   *)
(* the promise of fs settles and the method that awaits it goes on to its  *)
(* end, and run goes on, in a later job of the event loop, up to its next  *)
(* await or its end.                                                       *)
(***************************************************************************)
RunMethods ==
  << "fileExists", "readTransactionsFromCSV", "processTransactions", "writeResultsToFile" >>

\* The input files, as fs finds them: whether fs.access(filePath, R_OK)
\* succeeds, the message of the error of fs.readFile or "none", and the
\* content.  A path without a file; a directory, which can be accessed and
\* not read; an empty file, files of valid rows, a file with a row that does
\* not parse, the documented file and files with a payment that is too
\* small.  2.12 paid with 3.00 has change 88; 1.97 paid with 2.00 has change
\* 3 and 2.91 paid with 3.00 has change 9, which 3 divides; 3 paid with 2.12
\* is too little.
CliFiles ==
  LET PlainLine ==
        [kind |-> "data", text |-> << "2", ".", "1", "2", ",", "3", ".", "0", "0" >>,
         pair |-> << 2120, 3000 >>]
      ChangeThreeLine ==
        [kind |-> "data", text |-> << "1", ".", "9", "7", ",", "2", ".", "0", "0" >>,
         pair |-> << 1970, 2000 >>]
      ChangeNineLine ==
        [kind |-> "data", text |-> << "2", ".", "9", "1", ",", "3", ".", "0", "0" >>,
         pair |-> << 2910, 3000 >>]
      UnderpaidLine ==
        [kind |-> "data", text |-> << "3", ",", "2", ".", "1", "2" >>,
         pair |-> << 3000, 2120 >>]
      WrongLine == [kind |-> "wrong", text |-> << "5" >>]
  IN  {[filePath |-> "/nonexistent/file.csv", accessible |-> FALSE,
        readError |-> "ENOENT: no such file or directory, open '/nonexistent/file.csv'",
        content |-> << >>],
       [filePath |-> "/tmp", accessible |-> TRUE,
        readError |-> "EISDIR: illegal operation on a directory, read",
        content |-> << >>]}
        \cup {[filePath |-> "/test/transactions.csv", accessible |-> TRUE,
               readError |-> "none", content |-> FileContent(rows)] :
                rows \in {<< >>,
                          << ChangeNineLine >>,
                          << PlainLine, ChangeThreeLine >>,
                          << ChangeThreeLine, ChangeNineLine >>,
                          << ChangeThreeLine, WrongLine >>,
                          << CHOOSE line \in SampleLines : line.kind = "header", PlainLine >>,
                          << ChangeNineLine, UnderpaidLine >>,
                          << UnderpaidLine, ChangeThreeLine >>}}

\* results.join('\n')
RECURSIVE JoinLines(_)
JoinLines(results) ==
  IF results = << >> THEN ""
  ELSE IF Len(results) = 1 THEN results[1]
  ELSE results[1] \o "\n" \o JoinLines(Tail(results))

\* a call of run that has not started
NewRun(input, output) ==
  [pc |-> "start", input |-> input, output |-> output, calls |-> << >>,
   exists |-> FALSE, read |-> NoResult, results |-> << >>, write |-> NoResult,
   error |-> NoResult]

\* the catch block of run: handleError logs the error and run throws it again
Rejected(run, error) == [run EXCEPT !.pc = "rejected", !.error = error]

\* run(inputFilePath, outputFilePath) is called: it logs, calls fileExists,
\* which calls fs.access and awaits it, and awaits fileExists
RunCall(r) ==
  /\ calculator.runs[r].pc = "start"
  /\ calculator' = [calculator EXCEPT !.runs[r].calls = Append(@, "fileExists"),
                                      !.runs[r].pc = "access"]
  /\ UNCHANGED << mathRandom, rcs, strategies, frame, batch, result, hist >>

\* fs.access has settled and fileExists goes on: it returns true, or false
\* from its catch block
AccessSettled(r) ==
  /\ calculator.runs[r].pc = "access"
  /\ calculator' = [calculator EXCEPT !.runs[r].exists = calculator.runs[r].input.accessible,
                                      !.runs[r].pc = "exists"]
  /\ UNCHANGED << mathRandom, rcs, strategies, frame, batch, result, hist >>

\* run going on after await fileExists with the result of fileExists ignored
RunAfterExists_Unchecked(r) ==
  /\ calculator.runs[r].pc = "exists"
  /\ calculator' = [calculator EXCEPT
                      !.runs[r].calls = Append(@, "readTransactionsFromCSV"),
                      !.runs[r].pc = "readFile"]
  /\ UNCHANGED << mathRandom, rcs, strategies, frame, batch, result, hist >>

\* run goes on after await fileExists: on false it throws the
\* CashRegisterError FILE_NOT_FOUND, which its catch block throws again; on
\* true it calls readTransactionsFromCSV, which calls fs.readFile and awaits
\* it, and awaits readTransactionsFromCSV
RunAfterExists(r) ==
  /\ calculator.runs[r].pc = "exists"
  /\ LET run == calculator.runs[r]
     IN  calculator' =
           [calculator EXCEPT !.runs[r] =
              IF ~run.exists
              THEN Rejected(run, [kind |-> "throw", error |-> "CashRegisterError",
                                  code |-> "FILE_NOT_FOUND",
                                  message |-> "Input file does not exist: "
                                                \o run.input.filePath])
              ELSE [run EXCEPT !.calls = Append(@, "readTransactionsFromCSV"),
                               !.pc = "readFile"]]
  /\ UNCHANGED << mathRandom, rcs, strategies, frame, batch, result, hist >>

\* fs.readFile has settled and readTransactionsFromCSV goes on to its end
ReadSettled(r) ==
  /\ calculator.runs[r].pc = "readFile"
  /\ calculator' = [calculator EXCEPT !.runs[r].read = ReadOutcome(calculator.runs[r].input),
                                      !.runs[r].pc = "read"]
  /\ UNCHANGED << mathRandom, rcs, strategies, frame, batch, result, hist >>

\* run going on after await readTransactionsFromCSV with a processTransactions
\* that yields between the cache lookups and the insertions of its calls: the
\* lookups see the cache as it was at an earlier moment, a prefix of the
\* entries, and the insertions are made on the cache as it is now
RunAfterRead_Yielding(r) ==
  /\ calculator.runs[r].pc = "read"
  /\ LET run == calculator.runs[r]
         cache == rcs["factory"].cache
         RECURSIVE Inserted(_, _)
         Inserted(now, entries) ==
           IF entries = << >> THEN now
           ELSE Inserted(cacheResult(now, Head(entries).key, Head(entries).value),
                         Tail(entries))
     IN  IF run.read.kind = "throw"
         THEN /\ calculator' = [calculator EXCEPT !.runs[r] = Rejected(run, run.read)]
              /\ UNCHANGED rcs
         ELSE \E seen \in 0..Len(cache) :
                \E processed \in MapOutcomes(SubSeq(cache, 1, seen), calculator.currency,
                                              calculator.specialRuleConfig, run.read.pairs) :
                  LET outputs == [i \in 1..Len(processed.results) |->
                                    processed.results[i].formattedOutput]
                      entries == SubSeq(processed.cache, seen + 1, Len(processed.cache))
                  IN  /\ rcs' = [rcs EXCEPT !["factory"].cache = Inserted(cache, entries)]
                      /\ calculator' =
                           [calculator EXCEPT !.runs[r] =
                              IF processed.kind = "throw"
                              THEN Rejected([run EXCEPT
                                               !.calls = Append(@, "processTransactions")],
                                            processed.error)
                              ELSE [run EXCEPT
                                      !.calls = @ \o << "processTransactions",
                                                        "writeResultsToFile" >>,
                                      !.results = outputs,
                                      !.pc = "writeFile"]]
  /\ UNCHANGED << mathRandom, strategies, frame, batch, result, hist >>

\* run goes on after await readTransactionsFromCSV: the error of a rejected
\* promise goes to the catch block, which throws it again; otherwise run
\* logs, calls processTransactions, whose error goes to the catch block as
\* well, and with its results calls writeResultsToFile, which calls
\* fs.writeFile and awaits it, and awaits writeResultsToFile.  The calls of
\* processTransactions are made on the calculator of the runner.
RunAfterRead(r) ==
  /\ calculator.runs[r].pc = "read"
  /\ LET run == calculator.runs[r]
     IN  IF run.read.kind = "throw"
         THEN /\ calculator' = [calculator EXCEPT !.runs[r] = Rejected(run, run.read)]
              /\ UNCHANGED rcs
         ELSE \E processed \in MapOutcomes(rcs["factory"].cache, calculator.currency,
                                           calculator.specialRuleConfig, run.read.pairs) :
                LET outputs == [i \in 1..Len(processed.results) |->
                                  processed.results[i].formattedOutput]
                IN  /\ rcs' = [rcs EXCEPT !["factory"].cache = processed.cache]
                    /\ calculator' =
                         [calculator EXCEPT !.runs[r] =
                            IF processed.kind = "throw"
                            THEN Rejected([run EXCEPT
                                             !.calls = Append(@, "processTransactions")],
                                          processed.error)
                            ELSE [run EXCEPT
                                    !.calls = @ \o << "processTransactions",
                                                      "writeResultsToFile" >>,
                                    !.results = outputs,
                                    !.pc = "writeFile"]]
  /\ UNCHANGED << mathRandom, strategies, frame, batch, result, hist >>

\* fs.writeFile has settled and writeResultsToFile goes on to its end: the
\* file holds results.join('\n'), or the error of fs.writeFile is wrapped in
\* a FileProcessingError
WriteSettled(r) ==
  /\ calculator.runs[r].pc = "writeFile"
  /\ LET run == calculator.runs[r]
     IN  calculator' =
           [calculator EXCEPT !.runs[r] =
              IF run.output.writeError # "none"
              THEN [run EXCEPT !.pc = "write",
                               !.write = FileProcessingError(
                                           "Failed to write file: "
                                             \o run.output.writeError,
                                           run.output.filePath, run.output.writeError)]
              ELSE [run EXCEPT !.pc = "write",
                               !.write = [kind |-> "written"],
                               !.output.written = TRUE,
                               !.output.content = JoinLines(run.results)]]
  /\ UNCHANGED << mathRandom, rcs, strategies, frame, batch, result, hist >>

\* run goes on after await writeResultsToFile: it logs and its promise is
\* fulfilled, or the error goes to the catch block, which throws it again
RunAfterWrite(r) ==
  /\ calculator.runs[r].pc = "write"
  /\ LET run == calculator.runs[r]
     IN  calculator' =
           [calculator EXCEPT !.runs[r] =
              IF run.write.kind = "throw" THEN Rejected(run, run.write)
              ELSE [run EXCEPT !.pc = "resolved"]]
  /\ UNCHANGED << mathRandom, rcs, strategies, frame, batch, result, hist >>

\* a runner built as index.ts builds it, and one call of run to make.  The
\* output file holds what an earlier run left; the second path is in a
\* directory that does not exist, where fs.writeFile fails.
InitCli ==
  /\ mathRandom = NativeRandom
  /\ rcs = [i \in Instances |-> IF i = "factory" THEN FactoryInstance ELSE Unconstructed]
  /\ LET CliOutputs ==
           {[filePath |-> "/test/output.txt", writeError |-> "none",
             written |-> FALSE, content |-> "earlier"],
            [filePath |-> "/nonexistent/output.txt",
             writeError |->
               "ENOENT: no such file or directory, open '/nonexistent/output.txt'",
             written |-> FALSE, content |-> "earlier"]}
     IN  \E input \in CliFiles, output \in CliOutputs :
           calculator = [currency |-> US_CURRENCY, specialRuleConfig |-> Config(3),
                         runs |-> << NewRun(input, output) >>]
  /\ strategies = DefaultStrategies
  /\ frame = IdleFrame
  /\ batch = NoBatch
  /\ result = NoResult
  /\ hist = [i \in Instances |-> << >>]

NextCli ==
  \/ \E r \in DOMAIN calculator.runs : RunCall(r)
  \/ \E r \in DOMAIN calculator.runs : AccessSettled(r)
  \/ \E r \in DOMAIN calculator.runs : RunAfterExists(r)
  \/ \E r \in DOMAIN calculator.runs : ReadSettled(r)
  \/ \E r \in DOMAIN calculator.runs : RunAfterRead(r)
  \/ \E r \in DOMAIN calculator.runs : WriteSettled(r)
  \/ \E r \in DOMAIN calculator.runs : RunAfterWrite(r)

SpecCli == InitCli /\ [][NextCli]_vars

(***************************************************************************)
(* Specification SpecCache: an instance whose cache is one entry short of  *)
(* capacity, or at capacity, after earlier direct calls; then              *)
(* calculateChange, clearCache and getCacheStats.                          *)
(***************************************************************************)
\* The earlier calls: changes 100 .. 999 with US_CURRENCY, then 100, 101, ...
\* with EUR_CURRENCY, each answered by the first heuristic with the largest
\* counts (every count is below 10, so 60-90% of it can round up to it).
EarlierCall(i) ==
  IF i <= 900 THEN [changeInCents |-> 99 + i, currency |-> US_CURRENCY]
  ELSE [changeInCents |-> i - 801, currency |-> EUR_CURRENCY]

EarlierCache(n) ==
  [i \in 1..n |->
     [key |-> CacheKey(EarlierCall(i).changeInCents, EarlierCall(i).currency),
      value |-> GreedyCalculateChange(Transaction(0, EarlierCall(i).changeInCents),
                                      EarlierCall(i).currency).denominations]]

\* clearCache
ClearCache(inst) ==
  /\ frame.pc = "idle"
  /\ rcs[inst].constructed
  /\ rcs' = [rcs EXCEPT ![inst].cache = << >>]
  /\ result' = [kind |-> "cleared"]
  /\ UNCHANGED << mathRandom, calculator, strategies, frame, batch, hist >>

\* getCacheStats
GetCacheStats(inst) ==
  /\ frame.pc = "idle"
  /\ rcs[inst].constructed
  /\ result' = [kind |-> "stats", size |-> Len(rcs[inst].cache), maxSize |-> maxCacheSize]
  /\ UNCHANGED << mathRandom, rcs, calculator, strategies, frame, batch, hist >>

\* calculateChange on the instance
CacheCall(inst, changeInCents, currency) ==
  /\ frame.pc = "idle"
  /\ rcs[inst].constructed
  /\ Len(hist[inst]) < MaxCacheCalls
  /\ RandomCalculateChange("direct", inst, Transaction(0, changeInCents), currency)
  /\ UNCHANGED << mathRandom, rcs, calculator, strategies >>

InitCache ==
  /\ mathRandom = NativeRandom
  /\ \E n \in {maxCacheSize - 1, maxCacheSize} :
       rcs = [i \in Instances |->
                IF i = "A"
                THEN [constructed |-> TRUE, seeded |-> FALSE, randomSeed |-> 0,
                      cache |-> EarlierCache(n)]
                ELSE Unconstructed]
  /\ calculator = [currency |-> US_CURRENCY, specialRuleConfig |-> Config(3)]
  /\ strategies = DefaultStrategies
  /\ frame = IdleFrame
  /\ batch = NoBatch
  /\ result = NoResult
  /\ hist = [i \in Instances |-> << >>]

NextCache ==
  \* 100 is the change of the first earlier call; 8 was not asked before
  \/ \E change \in {8, 100} : CacheCall("A", change, US_CURRENCY)
  \/ ClearCache("A")
  \/ GetCacheStats("A")
  \/ SearchAttempt
  \/ SearchFallback

SpecCache == InitCache /\ [][NextCache]_vars

(***************************************************************************)
(* Specification SpecOrder: one RandomChangeStrategy, constructed with or  *)
(* without a seed, and calculateChange calls on it.                        *)
(***************************************************************************)
InitOrder ==
  /\ \E seeded \in BOOLEAN, randomSeed \in Seeds :
       /\ mathRandom = IF seeded THEN setupSeededRandom(randomSeed) ELSE NativeRandom
       /\ rcs = [i \in Instances |->
                   IF i = "A"
                   THEN [constructed |-> TRUE, seeded |-> seeded,
                         randomSeed |-> IF seeded THEN randomSeed ELSE 0,
                         cache |-> << >>]
                   ELSE Unconstructed]
  /\ calculator = [currency |-> US_CURRENCY, specialRuleConfig |-> Config(3)]
  /\ strategies = DefaultStrategies
  /\ frame = IdleFrame
  /\ batch = NoBatch
  /\ result = NoResult
  /\ hist = [i \in Instances |-> << >>]

NextOrder ==
  \/ \E change \in DirectChanges : CacheCall("A", change, US_CURRENCY)
  \/ SearchAttempt
  \/ SearchFallback

SpecOrder == InitOrder /\ [][NextOrder]_vars

(***************************************************************************)
(* Specification SpecShared: the concurrent callers of the engine in one   *)
(* process.  Two calls of run on one CLIRunner are in progress at the same *)
(* time; they share the ChangeCalculator of the runner and with it the     *)
(* RandomChangeStrategy of its factory and the cache of that strategy, and *)
(* the event loop takes their steps in any order.  Requests to POST /batch *)
(* are served in between: calculateBatchChange builds a new                *)
(* ChangeCalculator, and so a new RandomChangeStrategy with an empty       *)
(* cache, for every request.  Amounts of a request are numbers of          *)
(* thousandths, as in SpecBatch.                                           *)
(***************************************************************************)
\* the middleware validateBatchRequest: RequestValidator.validateSchema with
\* the schema of getRouter, on a body whose amounts are numbers; the
\* currency "undefined" is that of a body without the property, which the
\* schema does not require; the schema says nothing about specialRule
validateBatchRequest(body) ==
  /\ body.isArray
  /\ Len(body.transactions) >= 1
  /\ \A i \in 1..Len(body.transactions) :
       body.transactions[i][1] >= 0 /\ body.transactions[i][2] >= 0
  /\ body.currency \in {"undefined", "USD", "EUR"}

\* The bodies of the requests; specialRule is the list of the specialRule
\* given, empty for a body without one.  0.75 has a change that 3 divides,
\* 0.08 has not and 2 divides it; 0.08 paid with 0 is too little; one body
\* names no currency; the last four do not pass the schema.
RequestBodies ==
  LET Body(currency, specialRule, transactions) ==
        [isArray |-> TRUE, transactions |-> transactions, currency |-> currency,
         specialRule |-> specialRule]
  IN  {Body("USD", << >>, << << 0, 750 >>, << 0, 750 >> >>),
       Body("EUR", << >>, << << 0, 80 >> >>),
       Body("undefined", << >>, << << 0, 80 >> >>),
       Body("USD", << Config(2) >>, << << 0, 80 >> >>),
       Body("USD", << >>, << << 0, 750 >>, << 80, 0 >> >>),
       Body("GBP", << >>, << << 0, 750 >> >>),
       Body("USD", << >>, << << -10, 0 >> >>),
       Body("USD", << >>, << >>),
       [isArray |-> FALSE, transactions |-> << >>, currency |-> "USD",
        specialRule |-> << >>]}

\* ChangeCalculatorController.calculateBatchChange on the body of a request:
\* the answers it can give.  400 for a body without transactions or with a
\* currency that is not in the registry, USD standing for a currency that
\* is not given; otherwise the results of a new calculator, with the
\* specialRule of the body or the divisor 3, and their summary, or
\* next(error) with the error of the first transaction that throws.
calculateBatchChange(body) ==
  LET currency == IF body.currency = "undefined" THEN "USD" ELSE body.currency
      RECURSIVE Total(_)
      Total(results) ==
        IF results = << >> THEN 0
        ELSE results[1].totalChangeInCents + Total(Tail(results))
  IN  IF ~body.isArray \/ body.transactions = << >>
      THEN {[kind |-> "response", route |-> "controller", status |-> 400,
             error |-> "Transactions array is required and must not be empty",
             code |-> "INVALID_TRANSACTIONS"]}
      ELSE IF \A currencyConfig \in CURRENCY_REGISTRY : currencyConfig.code # currency
      THEN {[kind |-> "response", route |-> "controller", status |-> 400,
             error |-> "Unsupported currency: " \o currency,
             code |-> "INVALID_CURRENCY"]}
      ELSE LET currencyConfig == CHOOSE currencyConfig \in CURRENCY_REGISTRY :
                                   currencyConfig.code = currency
               ruleConfig == IF body.specialRule = << >> THEN Config(3)
                             ELSE body.specialRule[1]
           IN  {IF mapped.kind = "throw"
                THEN [kind |-> "next", error |-> mapped.error]
                ELSE [kind |-> "response", route |-> "controller", status |-> 200,
                      results |-> mapped.results,
                      summary |-> [totalTransactions |-> Len(body.transactions),
                                   totalChangeInCents |-> Total(mapped.results),
                                   currency |-> currency]] :
                  mapped \in MapOutcomes(<< >>, currencyConfig, ruleConfig,
                                         body.transactions)}

\* the route of POST /batch on a request: the middleware answers 400 to a
\* body that does not pass the schema and otherwise calls next(), which
\* runs calculateBatchChange; result is the answer
HandleRequest(body) ==
  /\ IF ~validateBatchRequest(body)
     THEN result' = [kind |-> "response", route |-> "controller", status |-> 400,
                     error |-> "Validation failed", code |-> "VALIDATION_ERROR"]
     ELSE \E answer \in calculateBatchChange(body) : result' = answer
  /\ UNCHANGED << mathRandom, rcs, calculator, strategies, frame, batch, hist >>

\* one runner and two calls of run to make on it, each with its own input
\* file and its own output file.  The input files are those of CliFiles
\* with a row that owes 2.91: a file with change 9, a file with change 3 and
\* then 9, and a file with change 9 and then a payment that is too small.
InitSharedRunner ==
  /\ mathRandom = NativeRandom
  /\ rcs = [i \in Instances |-> IF i = "factory" THEN FactoryInstance ELSE Unconstructed]
  /\ LET SharedFiles ==
           {input \in CliFiles :
              \E i \in 1..(Len(input.content) - 3) :
                SubSeq(input.content, i, i + 3) = << "2", ".", "9", "1" >>}
         Input(file, filePath) == [file EXCEPT !.filePath = filePath]
         Output(filePath) ==
           [filePath |-> filePath, writeError |-> "none",
            written |-> FALSE, content |-> "earlier"]
     IN  \E first \in SharedFiles, second \in SharedFiles :
           calculator =
             [currency |-> US_CURRENCY, specialRuleConfig |-> Config(3),
              runs |-> << NewRun(Input(first, "/test/first.csv"),
                                 Output("/test/first.txt")),
                          NewRun(Input(second, "/test/second.csv"),
                                 Output("/test/second.txt")) >>]
  /\ strategies = DefaultStrategies
  /\ frame = IdleFrame
  /\ batch = NoBatch
  /\ result = NoResult
  /\ hist = [i \in Instances |-> << >>]

NextShared ==
  \/ \E r \in DOMAIN calculator.runs : RunCall(r)
  \/ \E r \in DOMAIN calculator.runs : AccessSettled(r)
  \/ \E r \in DOMAIN calculator.runs : RunAfterExists(r)
  \/ \E r \in DOMAIN calculator.runs : ReadSettled(r)
  \/ \E r \in DOMAIN calculator.runs : RunAfterRead(r)
  \/ \E r \in DOMAIN calculator.runs : WriteSettled(r)
  \/ \E r \in DOMAIN calculator.runs : RunAfterWrite(r)
  \/ \E body \in RequestBodies : HandleRequest(body)

SpecShared == InitSharedRunner /\ [][NextShared]_vars

(***************************************************************************)
(* Specification SpecSameCode: calls on one instance with two Currency     *)
(* values that carry the same code.  Currency is an interface: a caller    *)
(* can pass any value.  batch.requests lists the calls asked for, each     *)
(* with the currency it passes.                                            *)
(***************************************************************************)
SharedChanges == {8, 75}

InitShared ==
  /\ \E seeded \in BOOLEAN, randomSeed \in Seeds :
       /\ mathRandom = IF seeded THEN setupSeededRandom(randomSeed) ELSE NativeRandom
       /\ rcs = [i \in Instances |->
                   IF i = "A"
                   THEN [constructed |-> TRUE, seeded |-> seeded,
                         randomSeed |-> IF seeded THEN randomSeed ELSE 0,
                         cache |-> << >>]
                   ELSE Unconstructed]
  /\ calculator = [currency |-> US_CURRENCY, specialRuleConfig |-> Config(3)]
  /\ strategies = DefaultStrategies
  /\ frame = IdleFrame
  /\ batch = [active |-> FALSE, requests |-> << >>]
  /\ result = NoResult
  /\ hist = [i \in Instances |-> << >>]

OTHER_USD ==
  [code |-> "USD",
   denominations |-> << [name |-> "half-dollar", valueInCents |-> 50],
                        [name |-> "cent", valueInCents |-> 1] >>]

\* a caller prepares a call with its currency
PrepareCall(changeInCents, currency) ==
  /\ Len(batch.requests) < MaxRequests
  /\ batch' = [batch EXCEPT !.requests =
                 Append(@, [changeInCents |-> changeInCents, currency |-> currency])]
  /\ UNCHANGED << mathRandom, rcs, calculator, strategies, frame, result, hist >>

\* strategy.calculateChange(transaction, currency) for the oldest prepared call
MakeCall ==
  /\ frame.pc = "idle"
  /\ Len(hist["A"]) < Len(batch.requests)
  /\ LET call == batch.requests[Len(hist["A"]) + 1]
     IN  RandomCalculateChange("direct", "A", Transaction(0, call.changeInCents),
                               call.currency)
  /\ UNCHANGED << mathRandom, rcs, calculator, strategies >>

NextSameCode ==
  \/ \E changeInCents \in SharedChanges, currency \in {US_CURRENCY, OTHER_USD} :
       PrepareCall(changeInCents, currency)
  \/ MakeCall
  \/ SearchAttempt
  \/ SearchFallback

SpecSameCode == InitShared /\ [][NextSameCode]_vars

(***************************************************************************)
(* Specification SpecHeuristic: one call of one of the three heuristics,   *)
(* with any change, either currency and either generator.  result holds    *)
(* the arguments, then the candidate.                                      *)
(***************************************************************************)
\* 250 gives 10 quarters at most, 1000 gives 10 dollars or 10 euros at most;
\* the other two heuristics have too many candidates for these two changes
HeuristicChanges(place) ==
  IF place = 1 THEN 0..MaxHeuristicChange \cup {250, 1000} ELSE 0..MaxHeuristicChange

InitHeuristic ==
  /\ mathRandom \in {NativeRandom} \cup {SeededRandom(seed) : seed \in Seeds}
  /\ rcs = [i \in Instances |-> Unconstructed]
  /\ calculator = [currency |-> US_CURRENCY, specialRuleConfig |-> NoConfig]
  /\ strategies = DefaultStrategies
  /\ frame = IdleFrame
  /\ batch = NoBatch
  /\ \E place \in 1..NumStrategies, currency \in CURRENCY_REGISTRY :
     \E changeInCents \in HeuristicChanges(place) :
       result = [kind |-> "ask", place |-> place, changeInCents |-> changeInCents,
                 currency |-> currency]
  /\ hist = [i \in Instances |-> << >>]

\* strategy(): one candidate of the heuristic, and the generator after it
GenerateCandidate ==
  /\ result.kind = "ask"
  /\ \E candidate \in Candidates(result.place, result.changeInCents, result.currency,
                                 mathRandom) :
       /\ mathRandom' = candidate.rng
       /\ result' = [kind |-> "candidate", place |-> result.place,
                     changeInCents |-> result.changeInCents,
                     currency |-> result.currency,
                     denominations |-> candidate.denominations]
  /\ UNCHANGED << rcs, calculator, strategies, frame, batch, hist >>

NextHeuristic == GenerateCandidate

SpecHeuristic == InitHeuristic /\ [][NextHeuristic]_vars

(***************************************************************************)
(* Properties of the calculator (specification Spec).                      *)
(***************************************************************************)
\* the value of the denomination called name in a currency
ValueOf(currency, name) ==
  LET i == CHOOSE i \in 1..Len(currency.denominations) : currency.denominations[i].name = name
  IN  currency.denominations[i].valueInCents

NamesOf(currency) == {currency.denominations[i].name : i \in 1..Len(currency.denominations)}

\* sum of count x value over a mapping
RECURSIVE MappingTotal(_, _)
MappingTotal(denominations, currency) ==
  IF denominations = << >> THEN 0
  ELSE Head(denominations).count * ValueOf(currency, Head(denominations).name)
         + MappingTotal(Tail(denominations), currency)

FactoryCache == rcs["factory"].cache

GreedyMapping(changeInCents, currency) ==
  GreedyCalculateChange(Transaction(0, changeInCents), currency).denominations

\* C1: every result the calculator returns, on whichever path (no change,
\* greedy, searched, cache hit, fallback), has totalChangeInCents = paid - owed
\* and a mapping of the currency's denominations whose count x value sums to
\* paid - owed.
C1_ChangeIsExact ==
  result.kind = "return" =>
    /\ result.owed >= 0
    /\ result.paid >= result.owed
    /\ result.value.totalChangeInCents = result.paid - result.owed
    /\ \A i \in 1..Len(result.value.denominations) :
         result.value.denominations[i].name \in NamesOf(calculator.currency)
    /\ MappingTotal(result.value.denominations, calculator.currency)
         = result.paid - result.owed

\* a cache hit, after earlier calls, that returns a mapping other than greedy's
C1_Witness ==
  /\ result.kind = "return"
  /\ result.via = "search"
  /\ result.paid - result.owed = 8
  /\ Len(FactoryCache) >= 2
  /\ result.value.denominations
       # GreedyMapping(result.paid - result.owed, calculator.currency)

\* C2: a finished calculateChange(owed, paid) threw InvalidAmountError exactly
\* when owed < 0 or paid < 0, threw InsufficientPaymentError exactly when both
\* are >= 0 and paid < owed, and returned a result in every other case; a
\* search runs only for amounts that pass the validation.
C2_Validation ==
  /\ result.kind \in {"return", "throw"} =>
       LET invalid == result.owed < 0 \/ result.paid < 0
           insufficient == ~invalid /\ result.paid < result.owed
       IN  /\ (result.kind = "throw" /\ result.error = "InvalidAmountError") <=> invalid
           /\ (result.kind = "throw" /\ result.error = "InsufficientPaymentError")
                <=> insufficient
           /\ result.kind = "return" <=> (~invalid /\ ~insufficient)
  /\ frame.pc = "search" =>
       /\ frame.transaction.amountOwedInCents >= 0
       /\ frame.transaction.amountPaidInCents >= frame.transaction.amountOwedInCents

\* paid is negative and smaller than owed: the error is InvalidAmountError
C2_Witness ==
  /\ result.kind = "throw"
  /\ result.owed > 0
  /\ result.paid < 0
  /\ result.error = "InvalidAmountError"

\* C3: a step in which calculateChange(n, n) returns gives total 0, the empty
\* mapping and the empty string, on the path that consults no strategy, and
\* leaves every cache, the search position and Math.random as they were.
C3_NoChangeShortCircuit ==
  [][ (result'.kind = "return" /\ result'.owed = result'.paid) =>
        /\ result'.value = [totalChangeInCents |-> 0, denominations |-> << >>,
                            formattedOutput |-> ""]
        /\ result'.via = "zero"
        /\ rcs' = rcs
        /\ frame' = frame
        /\ mathRandom' = mathRandom ]_vars

\* calculateChange(n, n) with n > 0 has returned while the cache holds entries
C3_Witness ==
  /\ result.kind = "return"
  /\ result.owed = result.paid
  /\ result.owed > 0
  /\ Len(FactoryCache) >= 2

\* the change of the call whose outcome result' is, when the calculator sent
\* it to the randomized strategy
RandomCall(r) ==
  /\ r.kind = "return"
  /\ r.paid # r.owed
  /\ RandomShouldApply(Transaction(r.owed, r.paid), calculator.specialRuleConfig)

\* C7: an entry of the cache is the mapping the search returned when it was
\* stored; it stays as it is while it is in the cache; and every call for its
\* change and currency code that returns while the entry is in the cache
\* returns that mapping and its formatted output, whatever owed and paid are.
C7_CachedResultIsStable ==
  [][ /\ \A i \in 1..Len(FactoryCache) :
           LET key == FactoryCache[i].key
           IN  (CacheHas(FactoryCache', key) /\ Len(FactoryCache') >= Len(FactoryCache))
                 => CacheGet(FactoryCache', key) = FactoryCache[i].value
      /\ (RandomCall(result') /\ result'.via = "search") =>
           LET key == CacheKey(result'.paid - result'.owed, calculator.currency)
           IN  /\ CacheHas(FactoryCache', key)
               /\ CacheGet(FactoryCache', key) = result'.value.denominations
      /\ RandomCall(result') =>
           LET key == CacheKey(result'.paid - result'.owed, calculator.currency)
           IN  CacheHas(FactoryCache, key) =>
                 /\ result'.value.denominations = CacheGet(FactoryCache, key)
                 /\ result'.value.formattedOutput = formatOutput(CacheGet(FactoryCache, key)) ]_vars

\* a cache hit for other owed and paid amounts than zero owed, with a mapping
\* that is not greedy's
C7_Witness ==
  /\ result.kind = "return"
  /\ result.via = "cache"
  /\ result.owed > 0
  /\ Len(FactoryCache) >= 2
  /\ result.value.denominations
       # GreedyMapping(result.paid - result.owed, calculator.currency)

\* C8: a call that falls back returns exactly greedy's result for its
\* transaction and currency and stores nothing: the cache is unchanged and has
\* no entry under the call's key, and the next call for that key does not
\* return from the cache.
C8_FallbackIsGreedyAndUncached ==
  [][ /\ (result'.kind = "return" /\ result'.via = "fallback") =>
           /\ result'.value
                = GreedyCalculateChange(Transaction(result'.owed, result'.paid),
                                        calculator.currency)
           /\ rcs' = rcs
           /\ ~CacheHas(FactoryCache',
                        CacheKey(result'.paid - result'.owed, calculator.currency))
      /\ (result.kind = "return" /\ result.via = "fallback" /\ result'.kind = "return"
            /\ result'.paid - result'.owed = result.paid - result.owed)
           => result'.via # "cache" ]_vars

\* a fallback has happened
C8_Witness ==
  /\ result.kind = "return"
  /\ result.via = "fallback"
  /\ result.owed > 0

(***************************************************************************)
(* Properties of the factory (specification SpecFactory).                  *)
(***************************************************************************)
\* d divides c, stated without the remainder operator
Divides(d, c) == \E k \in 0..c : k * d = c

\* C4: a default factory's getStrategy returns the RandomChangeStrategy if
\* and only if a config is given and the change is a multiple of its divisor;
\* in every other case it returns a GreedyChangeStrategy.
C4_StrategySelection ==
  result.kind = "strategy" =>
    LET c == result.transaction.amountPaidInCents - result.transaction.amountOwedInCents
    IN  /\ result.strategy = "random"
           <=> (result.config.present /\ Divides(result.config.divisor, c))
        /\ result.strategy # "random" => result.strategy \in {"greedy", "defaultGreedy"}

C4_Witness ==
  /\ result.kind = "strategy"
  /\ result.config = Config(3)
  /\ result.transaction.changeInCents = 9
  /\ result.transaction.amountOwedInCents = 1
  /\ result.strategy = "random"

(***************************************************************************)
(* Properties of GreedyChangeStrategy (specification SpecGreedy).          *)
(***************************************************************************)
CountOf(denominations, name) ==
  IF \E i \in 1..Len(denominations) : denominations[i].name = name
  THEN denominations[CHOOSE i \in 1..Len(denominations) : denominations[i].name = name].count
  ELSE 0

ValuesOf(currency) ==
  {currency.denominations[i].valueInCents : i \in 1..Len(currency.denominations)}

\* the reference fill: what is left of c when the denomination of value v is
\* reached, after every larger denomination took all it could
RECURSIVE ReferenceRemaining(_, _, _)
ReferenceRemaining(c, values, v) ==
  LET larger == {w \in values : w > v}
  IN  IF larger = {} THEN c
      ELSE LET next == CHOOSE w \in larger : \A x \in larger : w <= x
           IN  ReferenceRemaining(c, values, next) % next

ReferenceCount(c, values, v) == ReferenceRemaining(c, values, v) \div v

IsUSOrder(currency) == currency \in Reordered(US_CURRENCY)

\* C5: for every change and every order of the denomination list the greedy
\* result gives each denomination the count of the reference largest-first
\* fill, lists the denominations it uses in descending value, and is the same
\* when the call is repeated; with US coins 88 is 3 quarters, 1 dime, 3 pennies
\* and 167 is 1 dollar, 2 quarters, 1 dime, 1 nickel, 2 pennies.
C5_GreedyIsReferenceFill ==
  result.kind = "greedy" =>
    LET c == result.changeInCents
        currency == result.currency
        mapping == result.value.denominations
    IN  /\ result.value.totalChangeInCents = c
        /\ \A name \in NamesOf(currency) :
             CountOf(mapping, name)
               = ReferenceCount(c, ValuesOf(currency), ValueOf(currency, name))
        /\ \A i \in 1..Len(mapping) :
             /\ mapping[i].name \in NamesOf(currency)
             /\ mapping[i].count > 0
             /\ \A j \in 1..Len(mapping) :
                  i < j => ValueOf(currency, mapping[i].name) > ValueOf(currency, mapping[j].name)
        /\ result.calls = 2 => result.value = result.previous
        /\ (IsUSOrder(currency) /\ c = 88)
             => result.value.formattedOutput = "3 quarters,1 dime,3 pennies"
        /\ (IsUSOrder(currency) /\ c = 167)
             => result.value.formattedOutput
                  = "1 dollar,2 quarters,1 dime,1 nickel,2 pennies"

C5_Witness ==
  /\ result.kind = "greedy"
  /\ result.calls = 2
  /\ result.changeInCents = 167
  /\ result.currency = [US_CURRENCY EXCEPT !.denominations = Reverse(US_DENOMINATIONS)]
  /\ Len(result.value.denominations) = 5

RECURSIVE CoinCount(_)
CoinCount(denominations) ==
  IF denominations = << >> THEN 0
  ELSE Head(denominations).count + CoinCount(Tail(denominations))

\* the least number of coins and bills that sum to c: reached holds the
\* amounts up to c that k coins and bills can sum to; -1 when no combination
\* sums to c
RECURSIVE LeastCount(_, _, _, _)
LeastCount(values, reached, k, c) ==
  IF c \in reached THEN k
  ELSE IF k >= c THEN -1
  ELSE LeastCount(values, {s + v : s \in reached, v \in values} \cap (0..c), k + 1, c)

MinimalCount(values, c) == LeastCount(values, {0}, 0, c)

\* C6: for USD and EUR and every change the number of coins and bills of the
\* greedy result is the least among the combinations that sum to the change.
C6_GreedyIsMinimal ==
  result.kind = "greedy" =>
    CoinCount(result.value.denominations)
      = MinimalCount(ValuesOf(result.currency), result.changeInCents)

C6_Witness ==
  /\ result.kind = "greedy"
  /\ result.currency = EUR_CURRENCY
  /\ result.changeInCents = 88
  /\ CoinCount(result.value.denominations) = 6

(***************************************************************************)
(* Properties of seeded instances (specification SpecDirect).              *)
(***************************************************************************)
SameSeed(i, j) ==
  /\ rcs[i].constructed /\ rcs[i].seeded
  /\ rcs[j].constructed /\ rcs[j].seeded
  /\ rcs[i].randomSeed = rcs[j].randomSeed

SameCalls(i, j, n) ==
  \A m \in 1..n : /\ hist[i][m].owed = hist[j][m].owed
                  /\ hist[i][m].paid = hist[j][m].paid

\* C9: two instances constructed with the same seed that were given the same
\* calls so far returned the same results so far, however their constructions
\* and calls were interleaved.
C9_SameSeedSameResults ==
  \A i, j \in DirectInstances :
    SameSeed(i, j) =>
      \A n \in 1..Min(Len(hist[i]), Len(hist[j])) :
        SameCalls(i, j, n) => hist[i][n].value = hist[j][n].value

(***************************************************************************)
(* Properties of processTransactions (specification SpecBatch).            *)
(***************************************************************************)
\* cents is an integer nearest to thousandths / 10; a half cent has two
IsNearestCent(cents, thousandths) ==
  /\ 10 * cents - 5 <= thousandths
  /\ thousandths <= 10 * cents + 5

\* the call of calculateChange that the callback made for a pair
IsCallFor(r, pair) ==
  /\ r.kind = "return"
  /\ IsNearestCent(r.owed, pair[1])
  /\ IsNearestCent(r.paid, pair[2])
  /\ r.value.totalChangeInCents = r.paid - r.owed

\* C10: a list of valid pairs gives a list of the same length whose i-th
\* element is the formatted output of the calculateChange call made with the
\* i-th pair's amounts rounded to cents; an empty list gives an empty list.
C10_BatchKeepsOrderAndLength ==
  result.kind = "batch" =>
    /\ Len(result.outputs) = Len(result.transactions)
    /\ Len(result.results) = Len(result.transactions)
    /\ \A i \in 1..Len(result.transactions) :
         /\ IsCallFor(result.results[i], result.transactions[i])
         /\ result.outputs[i] = result.results[i].value.formattedOutput
         /\ result.outputs[i] = IF result.results[i].value.denominations = << >> THEN ""
                                ELSE formatOutput(result.results[i].value.denominations)

C10_Witness ==
  /\ result.kind = "batch"
  /\ result.transactions = << << 45, 145 >>, << -4, 6 >> >>
  /\ calculator.currency = US_CURRENCY
  /\ result.results[1].owed = 5
  /\ result.results[1].paid = 14
  /\ result.outputs[2] = "1 penny"

\* the cents of an amount: the integer nearest to thousandths / 10, the
\* upper one at a half cent
NearestCent(thousandths) ==
  CHOOSE cents \in (thousandths \div 10 - 1)..(thousandths \div 10 + 1) :
    10 * cents - 5 <= thousandths /\ thousandths < 10 * cents + 5

\* the error of a pair, "ok" for a valid pair
PairError(pair) ==
  LET owed == NearestCent(pair[1])
      paid == NearestCent(pair[2])
  IN  IF owed < 0 \/ paid < 0 THEN "InvalidAmountError"
      ELSE IF paid < owed THEN "InsufficientPaymentError"
      ELSE "ok"

\* C11: processTransactions on a list with an invalid pair throws the error
\* of the first invalid pair in input order and returns no outputs; a list of
\* outputs is returned only when every pair is valid, and the callback never
\* runs on a pair that comes after an invalid one.
C11_InvalidPairAbortsBatch ==
  /\ (result.kind = "throw" /\ "transactions" \in DOMAIN result) =>
       LET first == result.processed + 1
       IN  /\ first <= Len(result.transactions)
           /\ PairError(result.transactions[first]) = result.error
           /\ \A i \in 1..result.processed : PairError(result.transactions[i]) = "ok"
           /\ DOMAIN result \cap {"outputs", "results", "value"} = {}
           /\ ~batch.active
  /\ result.kind = "batch" =>
       \A i \in 1..Len(result.transactions) : PairError(result.transactions[i]) = "ok"
  /\ batch.active =>
       \A i \in 1..(Len(batch.transactions) - Len(batch.pending)) :
         PairError(batch.transactions[i]) = "ok"

C11_Witness ==
  /\ result.kind = "throw"
  /\ "transactions" \in DOMAIN result
  /\ result.transactions = << << 6, 96 >>, << 96, 6 >> >>
  /\ result.processed = 1
  /\ result.error = "InsufficientPaymentError"
  /\ Len(FactoryCache) = 1

(***************************************************************************)
(* Properties of formatOutput (specification SpecFormat).                  *)
(***************************************************************************)
\* '<count> <name>', the name in the plural unless the count is 1
RenderedEntry(entry) ==
  ToString(entry.count) \o " "
    \o (IF entry.count = 1 THEN entry.name
        ELSE IF entry.name = "penny" THEN "pennies"
        ELSE entry.name \o "s")

\* the entries in their order, a ',' between two of them
RECURSIVE Rendered(_)
Rendered(denominations) ==
  IF denominations = << >> THEN ""
  ELSE IF Len(denominations) = 1 THEN RenderedEntry(denominations[1])
  ELSE Rendered(SubSeq(denominations, 1, Len(denominations) - 1))
         \o "," \o RenderedEntry(denominations[Len(denominations)])

\* C12: the formatted output of a mapping returned by either strategy lists
\* the mapping's entries in insertion order, each as '<count> <name>' with the
\* name unchanged for count 1 and else with 's' appended ('pennies' for
\* 'penny'), joined by ',' without spaces; the empty mapping gives ''.
C12_FormattedOutput ==
  result.kind = "formatted" =>
    /\ result.formattedOutput = Rendered(result.denominations)
    /\ result.denominations = << >> => result.formattedOutput = ""
    /\ result.denominations = << [name |-> "penny", count |-> 1] >>
         => result.formattedOutput = "1 penny"
    /\ result.denominations = << [name |-> "dime", count |-> 2], [name |-> "penny", count |-> 3] >>
         => result.formattedOutput = "2 dimes,3 pennies"
    /\ result.denominations = << [name |-> "penny", count |-> 3], [name |-> "nickel", count |-> 1] >>
         => result.formattedOutput = "3 pennies,1 nickel"
    /\ result.strategy = "greedy" =>
         \A i, j \in 1..Len(result.denominations) :
           i < j => ValueOf(result.currency, result.denominations[i].name)
                      > ValueOf(result.currency, result.denominations[j].name)

C12_Witness ==
  /\ result.kind = "formatted"
  /\ result.strategy = "random"
  /\ result.denominations = << [name |-> "penny", count |-> 3], [name |-> "nickel", count |-> 1] >>
  /\ result.formattedOutput = "3 pennies,1 nickel"

(***************************************************************************)
(* Properties of addStrategy (specification SpecCustom).                   *)
(***************************************************************************)
\* C13: after any addStrategy calls getStrategy returns the most recently
\* added strategy whose shouldApply is true, before every earlier-added one
\* and before both defaults; when no added strategy applies it returns what
\* the default factory returns.
C13_AddedStrategiesFirst ==
  result.kind = "strategy" =>
    LET added == hist["factory"]
        applicable == {i \in 1..Len(added) :
                         ShouldApply(added[i], result.transaction, result.config)}
        c == result.transaction.changeInCents
    IN  IF applicable # {}
        THEN result.strategy = added[CHOOSE i \in applicable : \A j \in applicable : j <= i]
        ELSE /\ result.strategy \in {"random", "greedy", "defaultGreedy"}
             /\ result.strategy = "random"
                  <=> (result.config.present /\ Divides(result.config.divisor, c))

C13_Witness ==
  /\ result.kind = "strategy"
  /\ hist["factory"] = << "customAlways", "customEven" >>
  /\ result.transaction.changeInCents = 9
  /\ result.config = Config(3)
  /\ result.strategy = "customAlways"

(***************************************************************************)
(* Properties of the calculate endpoint (specification SpecApi).           *)
(***************************************************************************)
\* C14: a request to the calculate endpoint with amounts a and p in dollars,
\* p >= a >= 0, currency USD, is answered with data whose totalChangeInCents
\* is round(100 p) - round(100 a) and whose breakdown sums to it.  The
\* amounts of the model are doubles with two decimals, so their number of
\* hundredths is their number of cents.
C14_EndpointAnswersInCents ==
  /\ (result.kind = "response" /\ result.route = "calculate" /\ result.status = 400) =>
       ~(result.paid >= result.owed /\ result.owed >= 0)
  /\ (result.kind = "return" /\ calculator.currency.code = "USD") =>
       /\ result.value.totalChangeInCents
            = Decimal(100 * ((result.paid - result.owed) \div DoubleUnit))
       /\ MappingTotal(result.value.denominations, CurrencyAsDoubles(US_CURRENCY))
            = Decimal(100 * ((result.paid - result.owed) \div DoubleUnit))

(***************************************************************************)
(* Properties of readTransactionsFromCSV (specification SpecCsv).          *)
(***************************************************************************)
\* a file in the documented format: the header line, then data rows
IsDocumentedFormat(rows) ==
  /\ Len(rows) >= 2
  /\ rows[1].kind = "header"
  /\ \A i \in 2..Len(rows) : rows[i].kind = "data"

\* C15: a file in the documented format, the line 'amountOwed,amountPaid'
\* followed by data rows, is read as one (owed, paid) pair per data row, in
\* the order of the file.
C15_DocumentedCsvIsAccepted ==
  (result.kind = "read" /\ IsDocumentedFormat(result.rows)) =>
    /\ result.outcome.kind = "pairs"
    /\ result.outcome.pairs = [i \in 1..(Len(result.rows) - 1) |-> result.rows[i + 1].pair]

(***************************************************************************)
(* Frame of a failed calculateChange (specification Spec).                 *)
(***************************************************************************)
\* C16: a calculateChange that throws InvalidAmountError or
\* InsufficientPaymentError throws in the step of the call itself: no search
\* ran, the caches of the randomized strategy, Math.random and the factory's
\* list are what they were; and no search is ever started for amounts that
\* are negative or too small.
C16_ThrowLeavesNoTrace ==
  [][/\ (result'.kind = "throw" /\ result' # result) =>
          /\ result'.error \in {"InvalidAmountError", "InsufficientPaymentError"}
          /\ frame.pc = "idle"
          /\ frame' = frame
          /\ rcs' = rcs
          /\ mathRandom' = mathRandom
          /\ strategies' = strategies
     /\ (frame.pc = "idle" /\ frame'.pc = "search") =>
          /\ frame'.transaction.amountOwedInCents >= 0
          /\ frame'.transaction.amountPaidInCents >= frame'.transaction.amountOwedInCents
    ]_vars

C16_Witness ==
  /\ result.kind = "throw"
  /\ result.error = "InsufficientPaymentError"
  /\ result.owed = 1
  /\ result.paid = 0
  /\ Len(FactoryCache) >= 1
  /\ frame.pc = "idle"

(***************************************************************************)
(* The entries of the cache (specification Spec).                          *)
(***************************************************************************)
\* the change whose key an entry is stored under
IsEntryFor(entry, changeInCents, currency) ==
  /\ entry.key = CacheKey(changeInCents, currency)
  /\ \A i \in 1..Len(entry.value) :
       /\ entry.value[i].name \in NamesOf(currency)
       /\ entry.value[i].count >= 0
  /\ MappingTotal(entry.value, currency) = changeInCents

\* C17: with one currency, every cache entry is stored under the key of the
\* change its mapping sums to and names only denominations of the currency;
\* the cache only changes in the step in which a search returns a valid
\* candidate, so rejected candidates and fallback results are never stored.
C17_CacheHoldsValidMappings ==
  /\ [](\A i \in 1..Len(FactoryCache) :
          \E changeInCents \in SampleChanges :
            IsEntryFor(FactoryCache[i], changeInCents, calculator.currency))
  /\ [][rcs' # rcs =>
          /\ frame.pc = "search"
          /\ result'.kind = "return"
          /\ result'.via = "search"
          /\ \E i \in 1..Len(rcs'["factory"].cache) :
               /\ rcs'["factory"].cache[i].value = result'.value.denominations
               /\ IsEntryFor(rcs'["factory"].cache[i], result'.paid - result'.owed,
                             calculator.currency)]_vars

C17_Witness ==
  /\ Len(FactoryCache) = 2
  /\ \E i \in 1..2 :
       /\ FactoryCache[i].key = CacheKey(9, US_CURRENCY)
       /\ FactoryCache[i].value # GreedyMapping(9, US_CURRENCY)
  /\ result.kind = "return"
  /\ result.via = "fallback"

(***************************************************************************)
(* The size and the order of the cache (specification SpecCache).          *)
(***************************************************************************)
DirectCache == rcs["A"].cache

\* C18: the cache never holds more than 1000 entries; getCacheStats reports
\* the number of entries with maxSize 1000 and changes nothing; clearCache
\* leaves the cache empty.
C18_CacheStaysWithinCapacity ==
  /\ [](Len(DirectCache) <= 1000)
  /\ [](result.kind = "stats" =>
          /\ result.size = Len(DirectCache)
          /\ result.maxSize = 1000)
  /\ [](result.kind = "cleared" => DirectCache = << >>)
  /\ [][/\ result'.kind = "stats" =>
             /\ rcs' = rcs
             /\ mathRandom' = mathRandom
             /\ frame' = frame
             /\ hist' = hist
        /\ result'.kind = "cleared" =>
             /\ rcs'["A"].cache = << >>
             /\ hist' = hist]_vars

C18_Witness ==
  /\ result.kind = "stats"
  /\ result.size = 1000
  /\ Len(hist["A"]) >= 1
  /\ hist["A"][Len(hist["A"])].via = "search"
  /\ DirectCache[1].key = CacheKey(EarlierCall(2).changeInCents, EarlierCall(2).currency)

\* the entries of the earlier calls, in the order of the calls
EarlierEntries == EarlierCache(maxCacheSize)

\* the keys of the calls made so far, "" for a call that did not search
SearchedKeys ==
  [j \in 1..Len(hist["A"]) |->
     IF hist["A"][j].via = "search"
     THEN CacheKey(hist["A"][j].paid - hist["A"][j].owed, US_CURRENCY)
     ELSE ""]

\* the last call of the instance that searched for the key, 0 if there is none
LastInserted(key, searchedKeys) ==
  LET searched == {j \in 1..Len(searchedKeys) : searchedKeys[j] = key}
  IN  IF searched = {} THEN 0
      ELSE CHOOSE i \in searched : \A j \in searched : j <= i

\* the entries of the earlier calls come first, in the order of those calls
\* and without the oldest ones, then the keys searched by the later calls in
\* the order of those calls
InInsertionOrder(cache) ==
  LET searchedKeys == SearchedKeys
      inserted == [i \in 1..Len(cache) |-> LastInserted(cache[i].key, searchedKeys)]
  IN  /\ \A i \in 1..(Len(cache) - 1) :
           /\ inserted[i] <= inserted[i + 1]
           /\ inserted[i] > 0 => inserted[i] < inserted[i + 1]
      /\ \E evicted \in 0..MaxCacheCalls :
           \A i \in 1..Len(cache) :
             inserted[i] = 0 =>
               /\ i + evicted <= maxCacheSize
               /\ cache[i] = EarlierEntries[i + evicted]

\* C19: between calls the cache is in the order in which its keys were
\* inserted (a call changes the cache only in the step that returns); a
\* step that caches a key first removes exactly the earliest inserted entry
\* when 1000 entries are present and nothing otherwise, and the key was not
\* present; a call answered from the cache leaves the cache as it was, so
\* the key just read is still the next one to be removed.
C19_EvictsEarliestInserted ==
  /\ [](frame.pc = "idle" => InInsertionOrder(DirectCache))
  /\ [][/\ (hist' # hist /\ result'.via = "cache") => rcs' = rcs
        /\ (rcs'["A"].cache # DirectCache /\ rcs'["A"].cache # << >>) =>
             LET key == CacheKey(result'.paid - result'.owed, US_CURRENCY)
                 after == rcs'["A"].cache
                 entry == [key |-> key, value |-> result'.value.denominations]
             IN  /\ result'.via = "search"
                 /\ ~ CacheHas(DirectCache, key)
                 /\ IF Len(DirectCache) >= 1000
                    THEN /\ Len(after) = 1000
                         /\ \A i \in 1..999 : after[i] = DirectCache[i + 1]
                         /\ after[1000] = entry
                    ELSE after = Append(DirectCache, entry)]_vars

C19_Witness ==
  /\ Len(hist["A"]) = 2
  /\ hist["A"][1].via = "cache"
  /\ hist["A"][1].paid - hist["A"][1].owed = EarlierCall(1).changeInCents
  /\ hist["A"][2].via = "search"
  /\ Len(DirectCache) = 1000
  /\ DirectCache[1].key = CacheKey(EarlierCall(2).changeInCents, EarlierCall(2).currency)
  /\ DirectCache[1000].key = CacheKey(8, US_CURRENCY)
  /\ ~ CacheHas(DirectCache, CacheKey(EarlierCall(1).changeInCents, US_CURRENCY))

(***************************************************************************)
(* Termination of the search (specification FairSpec).                     *)
(***************************************************************************)
\* C20: a search is always within its loops: at most 166 candidates per
\* heuristic, three heuristics, at most 500 candidates; each pass either
\* rejects one more candidate or returns a valid one, and after the last
\* pass the greedy result is returned; every search that starts ends with a
\* returned result.
C20_SearchTerminates ==
  /\ [](frame.pc = "search" =>
          /\ frame.strategyIndex \in 1..4
          /\ frame.attempt \in 0..165
          /\ frame.strategyIndex = 4 => frame.attempt = 0
          /\ frame.generated = 166 * (frame.strategyIndex - 1) + frame.attempt
          /\ frame.generated <= 500)
  /\ [][frame.pc = "search" =>
          LET changeInCents == frame.transaction.changeInCents
          IN  \/ /\ frame'.pc = "search"
                 /\ frame.strategyIndex <= 3
                 /\ frame'.generated = frame.generated + 1
                 /\ rcs' = rcs
                 /\ result' = result
              \/ /\ frame'.pc = "idle"
                 /\ frame.strategyIndex <= 3
                 /\ result'.kind = "return"
                 /\ result'.via = "search"
                 /\ MappingTotal(result'.value.denominations, frame.currency) = changeInCents
              \/ /\ frame'.pc = "idle"
                 /\ frame.strategyIndex = 4
                 /\ frame.generated = 498
                 /\ result'.kind = "return"
                 /\ result'.via = "fallback"
                 /\ result'.value.denominations = GreedyMapping(changeInCents, frame.currency)]_vars
  /\ (frame.pc = "search") ~> (frame.pc = "idle" /\ result.kind = "return")

C20_Witness ==
  /\ frame.pc = "search"
  /\ frame.strategyIndex = 4
  /\ frame.generated = 498
  /\ frame.transaction.changeInCents > 0

(***************************************************************************)
(* The order of the search (specification SpecOrder).                      *)
(***************************************************************************)
\* the candidates of the heuristic at a place of the fixed order
HeuristicInOrder(place, changeInCents, currency, rng) ==
  LET sorted == SortDesc(currency.denominations)
  IN  IF place = 1 THEN generateRandomWithBiasTowardsLarger(changeInCents, sorted, rng)
      ELSE IF place = 2 THEN generateRandomWithUniformDistribution(changeInCents, sorted, rng)
      ELSE generateRandomWithBiasTowardsSmaller(changeInCents, sorted, rng)

\* C21: a search starts with the first attempt of the larger-bias heuristic;
\* each step generates one candidate of the heuristic whose turn it is; a
\* valid candidate is returned and cached in that very step and ends the
\* search; an invalid one moves the search to the next attempt, and to the
\* next heuristic only after the 166th attempt of the current one.
C21_FirstValidInOrder ==
  [][/\ (frame.pc = "idle" /\ frame'.pc = "search") =>
          /\ frame'.strategyIndex = 1
          /\ frame'.attempt = 0
     /\ (frame.pc = "search" /\ frame.strategyIndex \in 1..3) =>
          LET changeInCents == frame.transaction.changeInCents
              key == CacheKey(changeInCents, frame.currency)
          IN  \E candidate \in HeuristicInOrder(frame.strategyIndex, changeInCents,
                                                frame.currency, mathRandom) :
                /\ mathRandom' = candidate.rng
                /\ IF isValidCombination(candidate.denominations, changeInCents,
                                         frame.currency)
                   THEN /\ frame'.pc = "idle"
                        /\ result'.kind = "return"
                        /\ result'.via = "search"
                        /\ result'.value.denominations = candidate.denominations
                        /\ CacheHas(rcs'[frame.inst].cache, key)
                        /\ CacheGet(rcs'[frame.inst].cache, key) = candidate.denominations
                   ELSE /\ frame'.pc = "search"
                        /\ rcs' = rcs
                        /\ result' = result
                        /\ IF frame.attempt < 165
                           THEN /\ frame'.strategyIndex = frame.strategyIndex
                                /\ frame'.attempt = frame.attempt + 1
                           ELSE /\ frame'.strategyIndex = frame.strategyIndex + 1
                                /\ frame'.attempt = 0]_vars

\* 8 pennies: a mapping the larger-bias heuristic never generates for 8
C21_Witness ==
  /\ result.kind = "return"
  /\ result.via = "search"
  /\ result.paid - result.owed = 8
  /\ result.value.denominations = << [name |-> "penny", count |-> 8] >>
  /\ \A candidate \in generateRandomWithBiasTowardsLarger(
                        8, SortDesc(US_CURRENCY.denominations), NativeRandom) :
       candidate.denominations # result.value.denominations

(***************************************************************************)
(* The larger-bias heuristic (specification SpecHeuristic).                *)
(***************************************************************************)
\* the least integer that is at least tenths * m / 10
CeilOfTenths(m, tenths) ==
  CHOOSE k \in 0..m : 10 * k >= tenths * m /\ 10 * (k - 1) < tenths * m

\* the denomination of the largest value in a non-empty set
Largest(denominationSet) ==
  CHOOSE d \in denominationSet :
    \A e \in denominationSet : e.valueInCents <= d.valueInCents

\* The mapping, from its entry k on, is what a walk over the denominations
\* not yet visited, largest first, can set with remaining still to give:
\* nothing for a denomination that does not fit, and for one that fits m
\* times a count from ceil(0.6 m) to min(m, ceil(0.9 m)).
RECURSIVE WithinLargerBias(_, _, _, _)
WithinLargerBias(notVisited, remaining, mapping, k) ==
  IF notVisited = {} \/ remaining <= 0
  THEN k = Len(mapping) + 1
  ELSE LET d == Largest(notVisited)
           m == remaining \div d.valueInCents
       IN  IF m >= 1
           THEN /\ k <= Len(mapping)
                /\ mapping[k].name = d.name
                /\ mapping[k].count >= 1
                /\ mapping[k].count >= CeilOfTenths(m, 6)
                /\ mapping[k].count <= CeilOfTenths(m, 9)
                /\ mapping[k].count <= m
                /\ WithinLargerBias(notVisited \ {d},
                                    remaining - mapping[k].count * d.valueInCents,
                                    mapping, k + 1)
           ELSE WithinLargerBias(notVisited \ {d}, remaining, mapping, k)

DenominationSet(currency) ==
  {currency.denominations[i] : i \in 1..Len(currency.denominations)}

\* C22: every candidate of the larger-bias heuristic visits the
\* denominations from the largest value to the smallest and gives each one
\* that fits m >= 1 times a count of at least ceil(0.6 m), at least 1, at
\* most ceil(0.9 m) and at most m.
C22_LargerBiasCounts ==
  (result.kind = "candidate" /\ result.place = 1) =>
    WithinLargerBias(DenominationSet(result.currency), result.changeInCents,
                     result.denominations, 1)

\* 1000 with US coins: 10 dollars fit and fewer than 10 are given
C22_Witness ==
  /\ result.kind = "candidate"
  /\ result.place = 1
  /\ result.changeInCents = 1000
  /\ Len(result.denominations) >= 2
  /\ result.denominations[1] = [name |-> "dollar", count |-> 9]

(***************************************************************************)
(* Counts of zero (specification Spec).                                    *)
(***************************************************************************)
NoZeroCount(denominations) ==
  \A i \in 1..Len(denominations) : denominations[i].count \in Nat \ {0}

\* C23: every count of every returned result (no change, greedy, searched,
\* cache hit, fallback) is an integer >= 1, and so is every count of every
\* cached mapping and of every candidate the heuristic whose turn it is can
\* generate.
C23_NoZeroCounts ==
  /\ result.kind = "return" => NoZeroCount(result.value.denominations)
  /\ \A i \in 1..Len(FactoryCache) : NoZeroCount(FactoryCache[i].value)
  /\ (frame.pc = "search" /\ frame.strategyIndex \in 1..3) =>
       \A candidate \in HeuristicInOrder(frame.strategyIndex,
                                         frame.transaction.changeInCents,
                                         frame.currency, mathRandom) :
         NoZeroCount(candidate.denominations)

\* 9 pennies for 9: the uniform or the smaller-bias heuristic drew 0 nickels
\* and left the nickel out
C23_Witness ==
  /\ result.kind = "return"
  /\ result.via = "search"
  /\ result.paid - result.owed = 9
  /\ result.value.denominations = << [name |-> "penny", count |-> 9] >>

(***************************************************************************)
(* The two default strategies (specification SpecCustom).                  *)
(***************************************************************************)
\* C24: for the transaction and the config of every getStrategy call, with
\* or without a config, exactly one of the two default shouldApply is true,
\* and getStrategy, after any addStrategy calls, returns a strategy of its
\* list, never the new GreedyChangeStrategy of its last line.
C24_DefaultsAreComplementary ==
  result.kind \in {"ask", "strategy"} =>
    /\ GreedyShouldApply(result.transaction, result.config)
         # RandomShouldApply(result.transaction, result.config)
    /\ result.kind = "strategy" =>
         /\ result.strategy # "defaultGreedy"
         /\ \E i \in 1..Len(strategies) : strategies[i] = result.strategy

\* after addStrategy of a strategy that never applies, greedy is chosen from
\* the list for a change the divisor does not divide
C24_Witness ==
  /\ result.kind = "strategy"
  /\ result.strategy = "greedy"
  /\ result.config = Config(3)
  /\ result.transaction.changeInCents = 8
  /\ hist["factory"] = << "customNever", "customNever" >>

(***************************************************************************)
(* Greedy without a unit denomination (specification SpecNoUnit).          *)
(***************************************************************************)
SmallestValue(currency) ==
  CHOOSE v \in ValuesOf(currency) : \A w \in ValuesOf(currency) : v <= w

\* C25: for a currency with no denomination of value 1, the empty list
\* included, greedy returns a result whose totalChangeInCents is the change
\* asked for c, and whose mapping sums to s with 0 <= c - s, and with
\* c - s below the smallest denomination value when there is a denomination.
C25_GreedyShortfallBelowSmallest ==
  (result.kind = "greedy" /\ 1 \notin ValuesOf(result.currency)) =>
    LET c == result.changeInCents
        s == MappingTotal(result.value.denominations, result.currency)
    IN  /\ result.value.totalChangeInCents = c
        /\ 0 <= c - s
        /\ result.currency.denominations # << >> => c - s < SmallestValue(result.currency)
        /\ \A i \in 1..Len(result.value.denominations) :
             result.value.denominations[i].name \in NamesOf(result.currency)

\* 13 in the currency of 11, 7 and 3: one eleven, and 2 are missing
C25_Witness ==
  /\ result.kind = "greedy"
  /\ result.currency = ODD_CURRENCY
  /\ result.changeInCents = 13
  /\ result.value.totalChangeInCents = 13
  /\ result.value.denominations = << [name |-> "eleven", count |-> 1] >>

(***************************************************************************)
(* Validation of the amounts given to processTransactions (SpecBatch).     *)
(***************************************************************************)
\* the error validateAmounts gives for the amounts of a pair as they were
\* given, before any rounding
GivenPairError(pair) == validateAmounts(pair[1], pair[2])

\* C26: for every pair (owed, paid) given to processTransactions, amounts
\* that are not a whole number of cents included, the call fails with
\* InvalidAmountError if owed < 0 or paid < 0 and with
\* InsufficientPaymentError if paid < owed: outputs are returned only for
\* lists whose given pairs all pass, and an error is the one of the first
\* given pair that does not.
C26_GivenAmountsAreValidated ==
  /\ result.kind = "batch" =>
       \A i \in 1..Len(result.transactions) :
         GivenPairError(result.transactions[i]) = "ok"
  /\ (result.kind = "throw" /\ "transactions" \in DOMAIN result) =>
       /\ GivenPairError(result.transactions[result.processed + 1]) = result.error
       /\ \A i \in 1..result.processed : GivenPairError(result.transactions[i]) = "ok"

(***************************************************************************)
(* The draws of a seeded instance (specification SpecDirect).              *)
(***************************************************************************)
\* the first candidate that an instance with this seed generates for its
\* first call when nothing else touched its generator
AloneFirstCandidate(randomSeed, changeInCents, currency) ==
  CHOOSE candidate \in Candidates(1, changeInCents, currency, setupSeededRandom(randomSeed)) :
    TRUE

\* C27: the draws of a seeded instance are determined by its seed and its
\* own calls alone: whatever other instances were constructed or called in
\* between, the first call on a seeded instance returns what the instance
\* returns when it is the only one, the first candidate drawn from its seed
\* whenever that candidate is valid.
C27_SeededDrawsAreOwn ==
  \A i \in DirectInstances :
    (rcs[i].constructed /\ rcs[i].seeded /\ Len(hist[i]) >= 1) =>
      LET changeInCents == hist[i][1].paid - hist[i][1].owed
          alone == AloneFirstCandidate(rcs[i].randomSeed, changeInCents, US_CURRENCY)
      IN  isValidCombination(alone.denominations, changeInCents, US_CURRENCY) =>
            hist[i][1].value.denominations = alone.denominations

(***************************************************************************)
(* Callers sharing an instance (specification SpecShared).                 *)
(***************************************************************************)
\* the changes of the pairs a call of run has read, in cents
ChangesOf(run) ==
  {NearestCent(run.read.pairs[i][2]) - NearestCent(run.read.pairs[i][1]) :
     i \in 1..Len(run.read.pairs)}

\* the entry is a whole mapping: it is valid, in the currency of the
\* runner, for the change of its key, a change of one of the two calls
WholeEntry(entry) ==
  \E r \in DOMAIN calculator.runs :
    /\ calculator.runs[r].read.kind = "pairs"
    /\ \E changeInCents \in ChangesOf(calculator.runs[r]) :
         /\ changeInCents > 0
         /\ entry.key = CacheKey(changeInCents, calculator.currency)
         /\ MappingTotal(entry.value, calculator.currency) = changeInCents
         /\ \A i \in 1..Len(entry.value) : entry.value[i].count > 0

\* C28: the callers that share a RandomChangeStrategy instance are the calls
\* of run on one runner, a request to POST /batch having an instance of
\* its own.  Two calls of run are in progress on one runner and the event
\* loop takes their steps, and the requests to POST /batch, in any order.
\* Every entry of the cache is at all times a whole valid mapping under a
\* key of its own.  A step never removes an entry or changes its mapping.  The cache changes only in the
\* step in which one call of run goes on from its read to its write or to
\* its rejection, the other call staying where it is: the entries added are
\* for changes of the pairs of that call that were not in the cache before,
\* one entry for a change, and an output for a change that was in the cache
\* before is the text of the mapping stored.  A request never touches the
\* cache of the runner.
C28_CallsRunToCompletion ==
  /\ [](\A i \in 1..Len(FactoryCache) :
          /\ WholeEntry(FactoryCache[i])
          /\ \A j \in 1..Len(FactoryCache) :
               FactoryCache[i].key = FactoryCache[j].key => i = j)
  /\ [][/\ Len(FactoryCache') >= Len(FactoryCache)
        /\ \A i \in 1..Len(FactoryCache) : FactoryCache'[i] = FactoryCache[i]
        /\ result' # result => FactoryCache' = FactoryCache
        /\ FactoryCache' # FactoryCache =>
             \E r \in DOMAIN calculator.runs :
               LET run == calculator.runs[r]
                   after == calculator'.runs[r]
               IN  /\ run.pc = "read"
                   /\ run.read.kind = "pairs"
                   /\ after.pc \in {"writeFile", "rejected"}
                   /\ \A other \in DOMAIN calculator.runs \ {r} :
                        calculator'.runs[other] = calculator.runs[other]
                   /\ \A i \in (Len(FactoryCache) + 1)..Len(FactoryCache') :
                        /\ ~CacheHas(FactoryCache, FactoryCache'[i].key)
                        /\ \E changeInCents \in ChangesOf(run) :
                             FactoryCache'[i].key =
                               CacheKey(changeInCents, calculator.currency)
        /\ \A r \in DOMAIN calculator.runs :
             LET run == calculator.runs[r]
                 after == calculator'.runs[r]
             IN  (run.pc = "read" /\ after.pc # "read" /\ run.read.kind = "pairs") =>
                   \A i \in 1..Len(after.results) :
                     LET changeInCents == NearestCent(run.read.pairs[i][2])
                                            - NearestCent(run.read.pairs[i][1])
                         key == CacheKey(changeInCents, calculator.currency)
                     IN  /\ CacheHas(FactoryCache, key) =>
                           after.results[i] = formatOutput(CacheGet(FactoryCache, key))
                         /\ (changeInCents > 0 /\ changeInCents % 3 = 0
                             /\ CacheHas(FactoryCache', key)) =>
                              after.results[i] = formatOutput(CacheGet(FactoryCache', key))]_vars

\* both calls of run are in progress: the second one read change 9, found
\* the cache empty and now waits for its write; the first one, which had
\* started before and reads change 3 and then 9, has gone on after it, has
\* added change 3 to the cache and taken change 9 from it
C28_Witness ==
  /\ calculator.runs[1].pc = "writeFile"
  /\ calculator.runs[2].pc = "writeFile"
  /\ Len(calculator.runs[1].results) = 2
  /\ Len(calculator.runs[2].results) = 1
  /\ calculator.runs[1].results[2] = calculator.runs[2].results[1]
  /\ Len(FactoryCache) = 2
  /\ FactoryCache[1].key = "9-USD"
  /\ FactoryCache[2].key = "3-USD"
  /\ calculator.runs[2].results[1] = "1 nickel,4 pennies"

(***************************************************************************)
(* The order of the steps of CLIRunner.run (specification SpecCli).        *)
(***************************************************************************)
Run == calculator.runs[1]

Called(method) == \E i \in 1..Len(Run.calls) : Run.calls[i] = method

\* the pairs of the rows of a file that parses before the first pair that
\* is not valid, all of them when all are valid
RECURSIVE ValidPrefix(_)
ValidPrefix(pairs) ==
  IF pairs = << >> \/ PairError(Head(pairs)) # "ok" THEN << >>
  ELSE << Head(pairs) >> \o ValidPrefix(Tail(pairs))

\* the error run meets first on its input, by its code: of the existence
\* check, of the read, of the parsing, of the first pair that is not valid;
\* "none" when there is none
FirstRunError(input) ==
  LET outcome == parseCSVContent(input.content)
  IN  IF ~input.accessible THEN "FILE_NOT_FOUND"
      ELSE IF input.readError # "none" THEN "FILE_PROCESSING_ERROR"
      ELSE IF outcome.kind = "throw" THEN outcome.code
      ELSE LET valid == Len(ValidPrefix(outcome.pairs))
           IN  IF valid = Len(outcome.pairs) THEN "none"
               ELSE PairError(outcome.pairs[valid + 1])

\* the code of an error, the class of one written without
CodeOf(error) == IF "code" \in DOMAIN error THEN error.code ELSE error.error

\* C29: run calls fileExists, readTransactionsFromCSV, processTransactions
\* and writeResultsToFile in this order, each after the one before it has
\* settled; it never reads when the input file does not exist; it never
\* writes, and the output file is as it was, when the existence check, the
\* read, the parsing or the calculation of a transaction fails, and run
\* then rejects with that error; without such an error it writes, and it
\* resolves when the file is written and rejects with the error of the
\* write otherwise.
C29_RunStepsInOrder ==
  /\ Run.calls = SubSeq(RunMethods, 1, Len(Run.calls))
  /\ Len(Run.calls) = CASE Run.pc = "start" -> 0
                        [] Run.pc \in {"access", "exists"} -> 1
                        [] Run.pc \in {"readFile", "read"} -> 2
                        [] Run.pc \in {"writeFile", "write", "resolved"} -> 4
                        [] OTHER -> Len(Run.calls)
  /\ ~Run.input.accessible => ~Called("readTransactionsFromCSV")
  /\ FirstRunError(Run.input) # "none" =>
       /\ ~Called("writeResultsToFile")
       /\ Run.output.content = "earlier" /\ ~Run.output.written
       /\ Run.pc # "resolved"
       /\ Run.pc = "rejected" =>
            /\ CodeOf(Run.error) = FirstRunError(Run.input)
            /\ Len(Run.calls) = CASE ~Run.input.accessible -> 1
                                  [] Run.read.kind = "throw" -> 2
                                  [] OTHER -> 3
            /\ ~Run.input.accessible =>
                 Run.error.message = "Input file does not exist: " \o Run.input.filePath
            /\ (Run.input.accessible /\ Run.input.readError # "none") =>
                 /\ Run.error.filePath = Run.input.filePath
                 /\ Run.error.message = "Failed to read file: " \o Run.input.readError
            /\ (Run.input.accessible /\ Run.input.readError = "none"
                /\ Run.read.kind = "throw") =>
                 Run.error = parseCSVContent(Run.input.content)
            /\ Run.read.kind = "pairs" =>
                 LET pair == Run.read.pairs[Len(ValidPrefix(Run.read.pairs)) + 1]
                 IN  /\ Run.error.owed = NearestCent(pair[1])
                     /\ Run.error.paid = NearestCent(pair[2])
  /\ (FirstRunError(Run.input) = "none" /\ Run.pc = "rejected") =>
       /\ Run.calls = RunMethods
       /\ Run.output.writeError # "none"
       /\ Run.error.code = "FILE_PROCESSING_ERROR"
       /\ Run.error.filePath = Run.output.filePath
       /\ Run.error.message = "Failed to write file: " \o Run.output.writeError
       /\ Run.output.content = "earlier" /\ ~Run.output.written
  /\ Run.pc = "resolved" => /\ Run.calls = RunMethods
                            /\ Run.output.written
                            /\ Run.output.content = JoinLines(Run.results)
  /\ ~Called("writeResultsToFile") =>
       Run.output.content = "earlier" /\ ~Run.output.written

\* the second row is underpaid: the first row was calculated and its
\* change 9 is in the cache, run rejected with InsufficientPaymentError and
\* the output file is as it was
C29_Witness ==
  /\ Run.pc = "rejected"
  /\ Run.error.error = "InsufficientPaymentError"
  /\ Run.calls = SubSeq(RunMethods, 1, 3)
  /\ Len(FactoryCache) = 1
  /\ FactoryCache[1].key = "9-USD"
  /\ Run.output.content = "earlier"
  /\ ~Run.output.written

(***************************************************************************)
(* Results and the currency of the call (specification SpecSameCode).      *)
(***************************************************************************)
\* C30: every result of calculateChange(transaction, currency) is valid for
\* the currency passed in that call: every name of its mapping is a
\* denomination of that currency and count x value sums to the change (both
\* currencies have a unit denomination), whatever calls came before on the
\* instance, calls with another Currency value of the same code included.
C30_ValidForPassedCurrency ==
  \A n \in 1..Len(hist["A"]) :
    LET call == batch.requests[n]
        denominations == hist["A"][n].value.denominations
    IN  /\ \A i \in 1..Len(denominations) : denominations[i].name \in NamesOf(call.currency)
        /\ isValidCombination(denominations, call.changeInCents, call.currency)

====
